---- MODULE Spec2Model ----
(***************************************************************************)
(* Dependency-graph analysis and execution planning of beads_viewer        *)
(* (package analysis): NewAnalyzer builds the graph from an issue list,    *)
(* Analyze computes the structural metrics, GetExecutionPlan the parallel  *)
(* tracks.                                                                 *)
(*                                                                         *)
(* Issue identifiers are Go strings; they are modelled by the naturals     *)
(* 1..MaxIssues, whose order stands for the byte order sort.Strings uses.  *)
(* 0 stands for the empty string.  Graph nodes are numbered 1..n in the    *)
(* order g.NewNode() hands them out.                                       *)
(***************************************************************************)
EXTENDS Integers, Sequences, FiniteSets, TLC

\* ---------------------------------------------------------------- bounds
MaxIssues == 3
MaxDeps == 2

\* ------------------------------------------------------ model.* constants
StatusOpen == "open"
StatusClosed == "closed"
StatusTombstone == "tombstone"
Statuses == {StatusOpen, StatusClosed, StatusTombstone}

DepBlocks == "blocks"
DepRelated == "related"
DepTypes == {DepBlocks, DepRelated}

\* every issue carries the default priority (P2)
Priorities == {2}

IssueIDs == 1..MaxIssues
NoID == 0

Dependency == [DependsOnID : IssueIDs, Type : DepTypes]

\* ------------------------------------------------------------- utilities
Range(s) == {s[i] : i \in DOMAIN s}

Max(S) == CHOOSE x \in S : \A y \in S : y <= x

Min(S) == CHOOSE x \in S : \A y \in S : x <= y

RECURSIVE SortAsc(_)
\* sort.Strings on a set of identifiers: ascending sequence
SortAsc(S) == IF S = {} THEN <<>> ELSE <<Min(S)>> \o SortAsc(S \ {Min(S)})

\* all orders in which a Go map (or a gonum node iterator) may yield S
Orders(S) == {p \in [1..Cardinality(S) -> S] : Range(p) = S}

VARIABLES issues, pc, g, idToNode, nodeToID, issueMap, last, stats, plan

\* package correlation: a raw path and what normalizePath made of it
VARIABLES path, normalized

\* package correlation: the history report, the FileLookup built from it,
\* and the value returned by the latest call on it
VARIABLES report, fpc, fl, call, lookupResult, hotspots, impact

\* package correlation, related work: the history report, the dependency
\* graph of the options, and the latest call of FindRelatedWork with its
\* result
VARIABLES hr, dependencyGraph, rpc, relatedCall, related

\* package analysis, ApproxBetweenness: the position of the caller, the
\* values the seeded generator returns, the latest call, its pivots and its
\* result (the graph is g)
VARIABLES apc, rng, approxCall, pivots, betweenness

\* package analysis, track labels: a track number and the label
\* generateTrackID made of it
VARIABLES labelNum, trackID

\* package triage: the latest call of generateProposals (its issues and
\* its triage result) and the proposals it returned
VARIABLES triageCall, proposals

\* package analysis, inside Analyze: the statement Analyze is at, its local
\* stats, the result of its topo.Sort, and what the caller has received
VARIABLES analyzePos, localStats, topoResult, returned

\* package hooks: the Executor (its config and its results), the statement
\* RunPreExport is at, the hook its loop is at, and the error it returned
VARIABLES hookConfig, hookResults, hookPc, hookIndex, hookErr

\* package drift: the Config, whether Validate accepted it, and the latest
\* call of GetStalenessThresholds with what it returned
VARIABLES driftConfig, driftPc, driftLabels, driftThresholds

pathVars == <<path, normalized>>

fileVars == <<report, fpc, fl, call, lookupResult, hotspots, impact>>

correlationVars == <<pathVars, fileVars>>

graphVars == <<issues, pc, g, idToNode, nodeToID, issueMap, last, stats, plan>>

relatedVars == <<hr, dependencyGraph, rpc, relatedCall, related>>

approxVars == <<apc, rng, approxCall, pivots, betweenness>>

trackVars == <<labelNum, trackID>>

triageVars == <<triageCall, proposals>>

analyzeVars == <<analyzePos, localStats, topoResult, returned>>

\* the packages around the analysis, and the inside of Analyze
hookVars == <<hookConfig, hookResults, hookPc, hookIndex, hookErr>>

driftVars == <<driftConfig, driftPc, driftLabels, driftThresholds>>

toolVars == <<triageVars, analyzeVars, hookVars, driftVars>>

\* what the actions of one package leave alone
nonGraphVars == <<correlationVars, relatedVars, approxVars, trackVars, toolVars>>

\* ApproxBetweenness works on a graph of its caller: all but g and its own
nonApproxVars == <<issues, pc, idToNode, nodeToID, issueMap, last, stats, plan,
                   correlationVars, relatedVars, trackVars, toolVars>>

nonPathVars == <<graphVars, fileVars, relatedVars, approxVars, trackVars, toolVars>>

nonFileVars == <<graphVars, pathVars, relatedVars, approxVars, trackVars, toolVars>>

nonRelatedVars == <<graphVars, correlationVars, approxVars, trackVars, toolVars>>

nonTrackVars == <<graphVars, correlationVars, relatedVars, approxVars, toolVars>>

analysisVars == <<graphVars, correlationVars, relatedVars, approxVars, trackVars>>

nonTriageVars == <<analysisVars, analyzeVars, hookVars, driftVars>>

nonAnalyzeVars == <<analysisVars, triageVars, hookVars, driftVars>>

nonHookVars == <<analysisVars, triageVars, analyzeVars, driftVars>>

nonDriftVars == <<analysisVars, triageVars, analyzeVars, hookVars>>

vars == <<analysisVars, toolVars>>

EmptyGraph == [nodes |-> {}, edges |-> {}]

\* GraphStats as make() leaves it (the float-valued metrics are not modelled)
NoStats == [InDegree |-> <<>>, OutDegree |-> <<>>,
            TopologicalOrder |-> <<>>, CriticalPathScore |-> <<>>]

NoPlan == [Tracks |-> <<>>, TotalActionable |-> 0, TotalBlocked |-> 0,
           Summary |-> [HighestImpact |-> NoID, ImpactReason |-> "", UnblocksCount |-> 0]]

\* normalized before normalizePath has run (no path holds this element)
NotNormalized == <<"unset">>

\* CoChangeMatrix as BuildCoChangeMatrix(nil) returns it
NoCoChange == [Matrix |-> <<>>, FileCommitCounts |-> <<>>]

\* FileLookup before NewFileLookup
NoFileLookup == [index |-> <<>>, beads |-> <<>>, coChange |-> NoCoChange]

NoCall == [op |-> "none", arg |-> <<>>]

\* FileBeadLookupResult with its empty lists
NoLookupResult == [OpenBeads |-> <<>>, ClosedBeads |-> <<>>, TotalBeads |-> 0]

\* ImpactResult as ImpactAnalysis starts it; the risk score is kept in
\* hundredths
NoImpact == [Files |-> <<>>, AffectedBeads |-> <<>>, RiskLevel |-> "low",
             RiskScore |-> 0, Summary |-> ""]

\* HistoryReport with empty maps
NoReport == [Histories |-> <<>>, CommitIndex |-> <<>>]

\* RelatedWorkOptions.DependencyGraph: nil until the caller supplies a map
NoDependencyGraph == [supplied |-> FALSE, deps |-> <<>>]

NoRelatedCall == [targetID |-> 0, IncludeClosed |-> FALSE, MaxResults |-> 0]

\* the result before any call; a nil result (unknown target) is this value too
NoRelatedWork == [TargetBeadID |-> 0, FileOverlap |-> <<>>, CommitOverlap |-> <<>>,
                  DependencyCluster |-> <<>>, Concurrent |-> <<>>, TotalRelated |-> 0]

\* BetweennessResult before any call
NoBetweenness == [Scores |-> <<>>, Mode |-> "", SampleSize |-> 0, TotalNodes |-> 0]

\* no call of ApproxBetweenness yet
NoApproxCall == [sampleSize |-> 0, seed |-> 0]

\* rand.New(rand.NewSource(seed)) gives the same values on every run: the
\* values of the first run are kept and every later run draws them again
NoDraws == [known |-> FALSE, draws |-> <<>>]

\* trackID before generateTrackID has run (no label is the empty string)
NoTrackID == <<>>

\* no call of generateProposals yet
NoTriageCall == [called |-> FALSE, issues |-> <<>>,
                 triage |-> [Recommendations |-> <<>>, BlockersToClear |-> <<>>,
                             QuickWins |-> <<>>]]

\* GraphStats as Analyze makes it: eight empty maps, no cycles, density 0,
\* no order.  A float64 score other than betweenness, critical path and
\* density is kept as the constant "score".
MadeGraphStats == [PageRank |-> <<>>, Betweenness |-> <<>>, Eigenvector |-> <<>>,
                   Hubs |-> <<>>, Authorities |-> <<>>, OutDegree |-> <<>>,
                   InDegree |-> <<>>, CriticalPathScore |-> <<>>, Cycles |-> {},
                   Density |-> <<0, 1>>, TopologicalOrder |-> <<>>]

\* the caller of Analyze before Analyze has returned
NotReturned == [returned |-> FALSE, stats |-> MadeGraphStats]

NoTopoResult == [sorted |-> <<>>, err |-> FALSE]

\* Executor.config when it is nil
NilConfig == [nil |-> TRUE, PreExport |-> <<>>]

\* a nil error
NilError == [nil |-> TRUE, Hook |-> 0, Error |-> "nil"]

\* DefaultConfig of package drift; a float64 field is an exact fraction,
\* LabelOverrides maps a label to a LabelConfig or to a nil pointer
DefaultConfig ==
    [DensityWarningPct |-> <<50, 1>>, DensityInfoPct |-> <<20, 1>>,
     NodeGrowthInfoPct |-> <<25, 1>>, EdgeGrowthInfoPct |-> <<25, 1>>,
     BlockedIncreaseThreshold |-> 5,
     ActionableDecreaseWarningPct |-> <<30, 1>>,
     ActionableIncreaseInfoPct |-> <<20, 1>>,
     PageRankChangeWarningPct |-> <<50, 1>>,
     StaleWarningDays |-> 14, StaleCriticalDays |-> 30,
     InProgressStaleMultiplier |-> <<1, 2>>,
     BlockingCascadeInfo |-> 3, BlockingCascadeWarning |-> 5,
     LabelOverrides |-> <<>>]

\* a nil *LabelConfig
NilLabelConfig == [nil |-> TRUE, StaleWarningDays |-> 0, StaleCriticalDays |-> 0,
                   InProgressStaleMultiplier |-> <<0, 1>>]

\* the values GetStalenessThresholds returns, before any call
NoThresholds == [warnDays |-> 0, critDays |-> 0, inProgressMult |-> <<0, 1>>]

GraphInit ==
    /\ issues = <<>>
    /\ pc = "query"
    /\ g = EmptyGraph
    /\ idToNode = <<>>
    /\ nodeToID = <<>>
    /\ issueMap = <<>>
    /\ last = "none"
    /\ stats = NoStats
    /\ plan = NoPlan

PathInit ==
    /\ path = <<>>
    /\ normalized = NotNormalized

FileInit ==
    /\ report = <<>>
    /\ fpc = "report"
    /\ fl = NoFileLookup
    /\ call = NoCall
    /\ lookupResult = NoLookupResult
    /\ hotspots = <<>>
    /\ impact = NoImpact

RelatedInit ==
    /\ hr = NoReport
    /\ dependencyGraph = NoDependencyGraph
    /\ rpc = "report"
    /\ relatedCall = NoRelatedCall
    /\ related = NoRelatedWork

ApproxInit ==
    /\ apc = "graph"
    /\ rng = NoDraws
    /\ approxCall = NoApproxCall
    /\ pivots = <<>>
    /\ betweenness = NoBetweenness

TrackInit ==
    /\ labelNum = 0
    /\ trackID = NoTrackID

TriageInit ==
    /\ triageCall = NoTriageCall
    /\ proposals = <<>>

AnalyzeInit ==
    /\ analyzePos = "idle"
    /\ localStats = MadeGraphStats
    /\ topoResult = NoTopoResult
    /\ returned = NotReturned

HookInit ==
    /\ hookConfig = NilConfig
    /\ hookResults = <<>>
    /\ hookPc = "new"
    /\ hookIndex = 0
    /\ hookErr = NilError

DriftInit ==
    /\ driftConfig = DefaultConfig
    /\ driftPc = "load"
    /\ driftLabels = <<>>
    /\ driftThresholds = NoThresholds

ToolInit == TriageInit /\ AnalyzeInit /\ HookInit /\ DriftInit

Init ==
    /\ GraphInit /\ PathInit /\ FileInit /\ RelatedInit /\ ApproxInit /\ TrackInit
    /\ ToolInit

\* ------------------------------------------------- loader (pkg/loader)
RECURSIVE DepsUpTo(_, _)
DepsUpTo(list, n) == IF n = 0 THEN 0 ELSE Len(list[n].Dependencies) + DepsUpTo(list, n - 1)

\* the dependency rows attached so far
TotalDeps(list) == DepsUpTo(list, Len(list))

\* queryIssues: one row of the issues table is scanned and appended.  The
\* table's key is the identifier, so no identifier comes twice; rows are
\* taken in ascending identifier order.
queryIssues ==
    /\ pc = "query"
    /\ Len(issues) < MaxIssues
    /\ \E id \in IssueIDs, s \in Statuses, p \in Priorities :
          /\ \A n \in DOMAIN issues : issues[n].ID < id
          /\ issues' = Append(issues, [ID |-> id, Status |-> s, Priority |-> p,
                                       Dependencies |-> <<>>])
    /\ UNCHANGED <<pc, g, idToNode, nodeToID, issueMap, last, stats, plan>>
    /\ UNCHANGED nonGraphVars

\* rows.Next() returns false: the issue rows are exhausted
queryIssuesDone ==
    /\ pc = "query"
    /\ pc' = "attach"
    /\ UNCHANGED <<issues, g, idToNode, nodeToID, issueMap, last, stats, plan>>
    /\ UNCHANGED nonGraphVars

\* attachDependencies: one row of the dependencies table is appended to the
\* issue it belongs to; a row of an unknown issue is skipped.  The target
\* and the type are whatever the table holds.
attachDependencies ==
    /\ pc = "attach"
    /\ TotalDeps(issues) < MaxDeps
    /\ \E n \in DOMAIN issues, d \in Dependency :
          issues' = [issues EXCEPT ![n].Dependencies = Append(@, d)]
    /\ UNCHANGED <<pc, g, idToNode, nodeToID, issueMap, last, stats, plan>>
    /\ UNCHANGED nonGraphVars

\* ------------------------------------------------------------ NewAnalyzer
IDsOf(list) == {list[n].ID : n \in DOMAIN list}

\* map writes in list order: the last issue with an identifier wins
LastIndex(list, id) == Max({n \in DOMAIN list : list[n].ID = id})

BuildIdToNode(list) == [id \in IDsOf(list) |-> LastIndex(list, id)]

BuildNodeToID(list) == [n \in DOMAIN list |-> list[n].ID]

BuildIssueMap(list) == [id \in IDsOf(list) |-> list[LastIndex(list, id)]]

\* the (u, v) pairs handed to g.SetEdge, for every dependency whose target
\* resolves to a node, whatever its type
EdgeCalls(list) ==
    UNION {{<<BuildIdToNode(list)[list[n].ID], BuildIdToNode(list)[d.DependsOnID]>> :
                d \in {d \in Range(list[n].Dependencies) : d.DependsOnID \in IDsOf(list)}}
           : n \in DOMAIN list}

\* a graph that takes self edges without complaint
SetEdgeAcceptsSelfEdge(list) == FALSE

\* simple.DirectedGraph.SetEdge panics on an edge from a node to itself
SetEdgePanics(list) == \E e \in EdgeCalls(list) : e[1] = e[2]

NewAnalyzer ==
    /\ pc = "attach"
    /\ IF SetEdgePanics(issues)
       THEN /\ pc' = "panic"
            /\ UNCHANGED <<g, idToNode, nodeToID, issueMap>>
       ELSE /\ pc' = "ready"
            /\ g' = [nodes |-> DOMAIN issues, edges |-> EdgeCalls(issues)]
            /\ idToNode' = BuildIdToNode(issues)
            /\ nodeToID' = BuildNodeToID(issues)
            /\ issueMap' = BuildIssueMap(issues)
    /\ UNCHANGED <<issues, last, stats, plan>>
    /\ UNCHANGED nonGraphVars

\* ---------------------------------------------------------------- Analyze
\* g.To(n): the nodes with an edge to n, i.e. the issues that depend on n
To(gr, n) == {p \in gr.nodes : <<p, n>> \in gr.edges}

\* g.From(n): the nodes n has an edge to, i.e. the issues n depends on
From(gr, n) == {v \in gr.nodes : <<n, v>> \in gr.edges}

\* the linearizations topo.Sort may return: for every edge u -> v, u comes
\* before v.  Which one it returns depends on the iteration order of the
\* graph's node map.
TopoOrders(gr) ==
    {s \in Orders(gr.nodes) :
        \A i, j \in DOMAIN s : i < j => <<s[j], s[i]>> \notin gr.edges}

\* a sort that never reports a cycle
topoSortNoError(gr) == {[sorted |-> s, err |-> FALSE] : s \in Orders(gr.nodes)}

\* topo.Sort(g): (sorted, err); err is non-nil exactly when no linearization
\* exists, and sorted is not used then
topoSort(gr) ==
    LET orders == TopoOrders(gr)
    IN IF orders = {} THEN {[sorted |-> <<>>, err |-> TRUE]}
       ELSE {[sorted |-> s, err |-> FALSE] : s \in orders}

MaxOrZero(S) == IF S = {} THEN 0 ELSE Max(S)

RECURSIVE heightsLoopOverFrom(_, _, _, _)
\* the height loop walking g.From in place of g.To
heightsLoopOverFrom(gr, sorted, i, acc) ==
    IF i > Len(sorted) THEN acc
    ELSE LET nid == sorted[i]
             maxParentHeight ==
                 MaxOrZero({acc.heights[p] : p \in From(gr, nid) \cap DOMAIN acc.heights})
             h == 1 + maxParentHeight
         IN heightsLoopOverFrom(gr, sorted, i + 1,
                [heights |-> (nid :> h) @@ acc.heights,
                 impactScores |-> (nodeToID[nid] :> h) @@ acc.impactScores])

RECURSIVE heightsLoop(_, _, _, _)
\* the loop of computeHeights over sorted[i..]: heights is keyed by node,
\* impactScores by identifier
heightsLoop(gr, sorted, i, acc) ==
    IF i > Len(sorted) THEN acc
    ELSE LET nid == sorted[i]
             maxParentHeight ==
                 MaxOrZero({acc.heights[p] : p \in To(gr, nid) \cap DOMAIN acc.heights})
             h == 1 + maxParentHeight
         IN heightsLoop(gr, sorted, i + 1,
                [heights |-> (nid :> h) @@ acc.heights,
                 impactScores |-> (nodeToID[nid] :> h) @@ acc.impactScores])

computeHeights(gr, sorted) ==
    heightsLoop(gr, sorted, 1, [heights |-> <<>>, impactScores |-> <<>>]).impactScores

\* the sorted nodes appended front to back
dependentsFirst(sorted) == [i \in 1..Len(sorted) |-> nodeToID[sorted[i]]]

\* the loop that appends sorted to stats.TopologicalOrder back to front
rootsFirst(sorted) == [i \in 1..Len(sorted) |-> nodeToID[sorted[Len(sorted) + 1 - i]]]

\* the degree loop writes stats.InDegree[nodeToID[n]] for every node n in the
\* iterator's order: per identifier, the node written last stays
Analyze ==
    /\ pc = "ready"
    /\ LET sorts == topoSort(g)
           \* computeHeights sorts the graph a second time
           heights == {computeHeights(g, srt2.sorted) : srt2 \in sorts}
           picks == {f \in [Range(nodeToID) -> g.nodes] :
                        \A id \in DOMAIN f : nodeToID[f[id]] = id}
       IN \E pick \in picks, srt \in sorts, cps \in heights :
             stats' = [InDegree |-> [id \in DOMAIN pick |-> Cardinality(To(g, pick[id]))],
                       OutDegree |-> [id \in DOMAIN pick |-> Cardinality(From(g, pick[id]))],
                       TopologicalOrder |->
                           IF srt.err THEN <<>> ELSE rootsFirst(srt.sorted),
                       CriticalPathScore |-> IF srt.err THEN <<>> ELSE cps]
    /\ last' = "Analyze"
    /\ plan' = NoPlan
    /\ UNCHANGED <<issues, pc, g, idToNode, nodeToID, issueMap>>
    /\ UNCHANGED nonGraphVars

\* ------------------------------------------------------- GetExecutionPlan
\* GetActionableIssues: the non-closed issues none of whose blocking
\* dependencies points to an existing non-closed issue
GetActionableIssues(im) ==
    {id \in DOMAIN im :
        /\ im[id].Status # StatusClosed
        /\ \A dep \in Range(im[id].Dependencies) :
              ~ /\ dep.Type = DepBlocks
                /\ dep.DependsOnID \in DOMAIN im
                /\ im[dep.DependsOnID].Status # StatusClosed}

RECURSIVE depScanAnyBlocker(_, _, _, _, _)
\* the dependency loop without the test of the other blocker's status
depScanAnyBlocker(im, deps, k, issueID, acc) ==
    IF k > Len(deps) THEN acc
    ELSE LET dep == deps[k]
         IN IF dep.Type # DepBlocks THEN depScanAnyBlocker(im, deps, k + 1, issueID, acc)
            ELSE IF dep.DependsOnID = issueID
                 THEN depScanAnyBlocker(im, deps, k + 1, issueID,
                                        [acc EXCEPT !.hasThisBlocker = TRUE])
            ELSE IF dep.DependsOnID \in DOMAIN im
                 THEN [acc EXCEPT !.wouldBeBlocked = TRUE]
            ELSE depScanAnyBlocker(im, deps, k + 1, issueID, acc)

RECURSIVE depScan(_, _, _, _, _)
\* the inner loop of computeUnblocks over deps[k..], with its break
depScan(im, deps, k, issueID, acc) ==
    IF k > Len(deps) THEN acc
    ELSE LET dep == deps[k]
         IN IF dep.Type # DepBlocks THEN depScan(im, deps, k + 1, issueID, acc)
            ELSE IF dep.DependsOnID = issueID
                 THEN depScan(im, deps, k + 1, issueID, [acc EXCEPT !.hasThisBlocker = TRUE])
            ELSE IF /\ dep.DependsOnID \in DOMAIN im
                    /\ im[dep.DependsOnID].Status # StatusClosed
                 THEN [acc EXCEPT !.wouldBeBlocked = TRUE]
            ELSE depScan(im, deps, k + 1, issueID, acc)

\* computeUnblocks: collected in map order, then sort.Strings
computeUnblocks(im, issueID) ==
    SortAsc({id \in DOMAIN im :
        /\ im[id].Status # StatusClosed
        /\ LET r == depScan(im, im[id].Dependencies, 1, issueID,
                            [hasThisBlocker |-> FALSE, wouldBeBlocked |-> FALSE])
           IN r.hasThisBlocker /\ ~r.wouldBeBlocked})

RECURSIVE findRoot(_, _)
\* the value find(x) returns
findRoot(parent, x) == IF parent[x] = x THEN x ELSE findRoot(parent, parent[x])

RECURSIVE findPath(_, _)
findPath(parent, x) == IF parent[x] = x THEN {} ELSE {x} \cup findPath(parent, parent[x])

\* the parent map find(x) leaves behind: the path from x is compressed
find(parent, x) ==
    [y \in DOMAIN parent |-> IF y \in findPath(parent, x) THEN findRoot(parent, x)
                              ELSE parent[y]]

\* a union that re-links x itself instead of its root
unionLinksNode(parent, x, y) ==
    LET p1 == find(parent, x)
        px == findRoot(parent, x)
        p2 == find(p1, y)
        py == findRoot(p1, y)
    IN IF px # py THEN [p2 EXCEPT ![x] = py] ELSE p2

union(parent, x, y) ==
    LET p1 == find(parent, x)
        px == findRoot(parent, x)
        p2 == find(p1, y)
        py == findRoot(p1, y)
    IN IF px # py THEN [p2 EXCEPT ![px] = py] ELSE p2

RECURSIVE unionDeps(_, _, _, _, _)
unionDeps(im, parent, id, deps, k) ==
    IF k > Len(deps) THEN parent
    ELSE unionDeps(im,
            IF deps[k].Type = DepBlocks /\ deps[k].DependsOnID \in DOMAIN im
            THEN union(parent, id, deps[k].DependsOnID) ELSE parent,
            id, deps, k + 1)

RECURSIVE unionIssues(_, _, _, _)
\* the union loop over the issue map, which Go walks in the order `order`
unionIssues(im, parent, order, i) ==
    IF i > Len(order) THEN parent
    ELSE unionIssues(im, unionDeps(im, parent, order[i], im[order[i]].Dependencies, 1),
                     order, i + 1)

\* findConnectedComponents: root -> members.  The members of a component are
\* kept as a set: buildTracks filters and then sorts them by a total order.
findConnectedComponents(im, order) ==
    LET parent == unionIssues(im, [id \in DOMAIN im |-> id], order, 1)
        roots == {findRoot(parent, id) : id \in DOMAIN im}
    IN [root \in roots |-> {id \in DOMAIN im : findRoot(parent, id) = root}]

Alphabet == <<"A", "B", "C", "D", "E", "F", "G", "H", "I", "J", "K", "L", "M",
              "N", "O", "P", "Q", "R", "S", "T", "U", "V", "W", "X", "Y", "Z">>

\* a conversion that keeps the last letter only
trackLettersLastOnly(n, letters) == <<Alphabet[(n % 26) + 1]>>

RECURSIVE trackLetters(_, _)
\* the loop of generateTrackID on the 0-based n
trackLetters(n, letters) ==
    IF n < 0 THEN letters
    ELSE trackLetters((n \div 26) - 1, <<Alphabet[(n % 26) + 1]>> \o letters)

\* generateTrackID: "track-" and the letters, as a sequence
generateTrackID(n) ==
    IF n <= 0 THEN <<"track-", "?">> ELSE <<"track-">> \o trackLetters(n - 1, <<>>)

\* sort.Slice by priority ascending, then identifier ascending
RECURSIVE sortByPriority(_, _)
sortByPriority(im, S) ==
    IF S = {} THEN <<>>
    ELSE LET m == CHOOSE x \in S : \A y \in S :
                      \/ im[x].Priority < im[y].Priority
                      \/ im[x].Priority = im[y].Priority /\ x <= y
         IN <<m>> \o sortByPriority(im, S \ {m})

RECURSIVE tracksLoop(_, _, _, _, _, _, _, _)
\* the loop of buildTracks over roots[i..]
tracksLoop(im, components, actionableSet, unblocksMap, roots, i, trackNum, tracks) ==
    IF i > Len(roots) THEN tracks
    ELSE LET members == components[roots[i]]
             actionableMembers == sortByPriority(im, members \cap actionableSet)
             items == [k \in 1..Len(actionableMembers) |->
                          [ID |-> actionableMembers[k],
                           Priority |-> im[actionableMembers[k]].Priority,
                           Status |-> im[actionableMembers[k]].Status,
                           UnblocksIDs |-> unblocksMap[actionableMembers[k]]]]
             reason == IF Len(actionableMembers) = 1 THEN "Single actionable item"
                       ELSE IF Cardinality(DOMAIN components) = 1
                            THEN "All issues in connected graph"
                       ELSE "Independent work stream"
         IN IF Len(actionableMembers) = 0
            THEN tracksLoop(im, components, actionableSet, unblocksMap, roots,
                            i + 1, trackNum, tracks)
            ELSE tracksLoop(im, components, actionableSet, unblocksMap, roots,
                            i + 1, trackNum + 1,
                            Append(tracks, [TrackID |-> generateTrackID(trackNum),
                                            Items |-> items, Reason |-> reason]))

buildTracks(im, components, actionableSet, unblocksMap) ==
    tracksLoop(im, components, actionableSet, unblocksMap,
               SortAsc(DOMAIN components), 1, 1, <<>>)

RECURSIVE summaryLoopLastMax(_, _, _, _)
\* the summary loop with >= in place of >
summaryLoopLastMax(sortedActionable, unblocksMap, i, acc) ==
    IF i > Len(sortedActionable) THEN acc
    ELSE LET count == Len(unblocksMap[sortedActionable[i]])
         IN summaryLoopLastMax(sortedActionable, unblocksMap, i + 1,
                IF count >= acc.highestCount
                THEN [highestID |-> sortedActionable[i], highestCount |-> count]
                ELSE acc)

RECURSIVE summaryLoop(_, _, _, _)
\* the loop of computePlanSummary over sortedActionable[i..]
summaryLoop(sortedActionable, unblocksMap, i, acc) ==
    IF i > Len(sortedActionable) THEN acc
    ELSE LET count == Len(unblocksMap[sortedActionable[i]])
         IN summaryLoop(sortedActionable, unblocksMap, i + 1,
                IF count > acc.highestCount
                THEN [highestID |-> sortedActionable[i], highestCount |-> count]
                ELSE acc)

computePlanSummary(actionable, unblocksMap) ==
    IF actionable = {} THEN NoPlan.Summary
    ELSE LET r == summaryLoop(SortAsc(actionable), unblocksMap, 1,
                              [highestID |-> NoID, highestCount |-> -1])
         IN [HighestImpact |-> r.highestID,
             ImpactReason |-> IF r.highestCount = 1 THEN "Unblocks 1 task"
                              ELSE IF r.highestCount > 1 THEN "Unblocks multiple tasks"
                              ELSE "No downstream dependencies",
             UnblocksCount |-> r.highestCount]

ExecutionPlan(im, components) ==
    LET actionable == GetActionableIssues(im)
        unblocksMap == [id \in actionable |-> computeUnblocks(im, id)]
        totalOpen == Cardinality({id \in DOMAIN im : im[id].Status # StatusClosed})
    IN [Tracks |-> buildTracks(im, components, actionable, unblocksMap),
        TotalActionable |-> Cardinality(actionable),
        TotalBlocked |-> totalOpen - Cardinality(actionable),
        Summary |-> computePlanSummary(actionable, unblocksMap)]

\* every iteration order of the issue map gives one run of the union loop
GetExecutionPlan ==
    /\ pc = "ready"
    /\ LET comps == {findConnectedComponents(issueMap, order) :
                        order \in Orders(DOMAIN issueMap)}
       IN \E components \in comps : plan' = ExecutionPlan(issueMap, components)
    /\ last' = "GetExecutionPlan"
    /\ stats' = NoStats
    /\ UNCHANGED <<issues, pc, g, idToNode, nodeToID, issueMap>>
    /\ UNCHANGED nonGraphVars

Next ==
    \/ queryIssues
    \/ queryIssuesDone
    \/ attachDependencies
    \/ NewAnalyzer
    \/ Analyze
    \/ GetExecutionPlan

Spec == Init /\ [][Next]_vars

\* NewAnalyzer takes any slice of issues.  A caller that assembles the list
\* from several sources (one list per repository of a workspace) may pass
\* the same identifier more than once: here the list grows by an issue of
\* any identifier.
appendIssue ==
    /\ pc = "query"
    /\ Len(issues) < MaxIssues
    /\ \E id \in IssueIDs, s \in Statuses, p \in Priorities :
          issues' = Append(issues, [ID |-> id, Status |-> s, Priority |-> p,
                                    Dependencies |-> <<>>])
    /\ UNCHANGED <<pc, g, idToNode, nodeToID, issueMap, last, stats, plan>>
    /\ UNCHANGED nonGraphVars

NextAnyList ==
    \/ appendIssue
    \/ queryIssuesDone
    \/ attachDependencies
    \/ NewAnalyzer

\* graph construction over issue lists in any order, repeated identifiers
\* included
SpecAnyList == Init /\ [][NextAnyList]_vars

\* ======================================================================
\* package correlation: path normalization
\* ======================================================================
MaxPathLen == 4

\* the characters a path is made of: a name character, the two separators
\* and the dot
PathChars == {"a", "/", "\\", "."}

Paths == UNION {[1..n -> PathChars] : n \in 0..MaxPathLen}

\* strings.ReplaceAll(path, "\\", "/")
ReplaceAllBackslash(p) == [i \in 1..Len(p) |-> IF p[i] = "\\" THEN "/" ELSE p[i]]

\* strings.TrimPrefix(path, "./"): the prefix is removed once
TrimPrefixDotSlash(p) ==
    IF Len(p) >= 2 /\ p[1] = "." /\ p[2] = "/" THEN SubSeq(p, 3, Len(p)) ELSE p

\* strings.TrimSuffix(path, "/"): the suffix is removed once
TrimSuffixSlash(p) ==
    IF Len(p) >= 1 /\ p[Len(p)] = "/" THEN SubSeq(p, 1, Len(p) - 1) ELSE p

normalizePath(p) == TrimSuffixSlash(TrimPrefixDotSlash(ReplaceAllBackslash(p)))

\* a caller hands normalizePath a raw path
normalizePathCall ==
    /\ normalized = NotNormalized
    /\ normalized' = normalizePath(path)
    /\ UNCHANGED <<path, nonPathVars>>

NextPath == normalizePathCall

\* any raw path of at most MaxPathLen characters
InitPath ==
    /\ GraphInit
    /\ FileInit
    /\ RelatedInit
    /\ ApproxInit
    /\ TrackInit
    /\ ToolInit
    /\ path \in Paths
    /\ normalized = NotNormalized

SpecPath == InitPath /\ [][NextPath]_vars


\* ======================================================================
\* package correlation: file index, co-change matrix, impact analysis
\* ======================================================================
MaxBeads == 2
MaxCommits == 2

BeadIDs == 1..MaxBeads
SHAs == 1..MaxCommits

\* the statuses a bead history carries (the issue's status, lower case)
BeadStatuses == {"in_progress", "open", "blocked", "closed", "tombstone"}

\* time.Now() and the commit timestamps, in whole days
NowDay == 10
Timestamps == {0, 8}

\* the 7 * 24 * time.Hour window of a recently closed bead, in days
RecentDays == 7

P_d == <<"d">>
P_da == <<"d", "/", "a">>
P_dot_da == <<".", "/", "d", "/", "a">>
P_db == <<"d", "/", "b">>
P_dc == <<"d", "/", "c">>
P_a == <<"a">>

\* the file lists of a commit: one file, another file, and a commit that
\* lists one file under two spellings beside a second file
FileLists == {<<P_da>>, <<P_db>>, <<P_da, P_dot_da, P_db>>}

\* --------------------------------------------------------- HistoryReport
CommitsOf(rep) == UNION {Range(rep[b].Commits) : b \in DOMAIN rep}

ShasOf(rep) == {c.SHA : c \in CommitsOf(rep)}

\* the correlator opens the history of one more bead
addHistory ==
    /\ fpc = "report"
    /\ \E b \in BeadIDs, s \in BeadStatuses :
          /\ b \notin DOMAIN report
          /\ \A x \in DOMAIN report : x < b
          /\ report' = (b :> [Status |-> s, Commits |-> <<>>]) @@ report
    /\ UNCHANGED <<fpc, fl, call, lookupResult, hotspots, impact>>
    /\ UNCHANGED nonFileVars

\* the correlator attaches a commit to a bead's history; a commit already
\* attached to another bead is the same commit (hash, time and files)
addCommit ==
    /\ fpc = "report"
    /\ \E b \in DOMAIN report, sha \in SHAs, ts \in Timestamps, files \in FileLists :
          LET c == [SHA |-> sha, Timestamp |-> ts, Files |-> files]
          IN /\ \A x \in Range(report[b].Commits) : x.SHA < sha
             /\ \A x \in SHAs : x < sha => x \in ShasOf(report)
             /\ \A x \in CommitsOf(report) : x.SHA = sha => x = c
             /\ report' = [report EXCEPT ![b].Commits = Append(@, c)]
    /\ UNCHANGED <<fpc, fl, call, lookupResult, hotspots, impact>>
    /\ UNCHANGED nonFileVars

\* -------------------------------------------------------- BuildFileIndex
RECURSIVE touchFiles(_, _, _, _, _)
\* the loop over commit.Files[j..] for one bead: refs is the bead's column
\* of fileBeadMap, normalized path -> reference
touchFiles(refs, beadID, status, commit, j) ==
    IF j > Len(commit.Files) THEN refs
    ELSE LET normalizedPath == normalizePath(commit.Files[j])
             ref == IF normalizedPath \in DOMAIN refs THEN refs[normalizedPath]
                    ELSE [BeadID |-> beadID, Status |-> status, CommitSHAs |-> <<>>,
                          LastTouch |-> commit.Timestamp]
             shas == IF commit.SHA \in Range(ref.CommitSHAs) THEN ref.CommitSHAs
                     ELSE Append(ref.CommitSHAs, commit.SHA)
             touch == IF commit.Timestamp > ref.LastTouch THEN commit.Timestamp
                      ELSE ref.LastTouch
         IN touchFiles((normalizedPath :> [ref EXCEPT !.CommitSHAs = shas,
                                                      !.LastTouch = touch]) @@ refs,
                       beadID, status, commit, j + 1)

RECURSIVE touchCommits(_, _, _, _)
\* the loop over history.Commits[i..]
touchCommits(refs, beadID, history, i) ==
    IF i > Len(history.Commits) THEN refs
    ELSE touchCommits(touchFiles(refs, beadID, history.Status, history.Commits[i], 1),
                      beadID, history, i + 1)

\* FileToBeads: normalized path -> the references of the beads that touched
\* it, keyed by bead.  (The order of one file's list is not kept: every
\* lookup sorts its lists again and the hotspots only count them.  Titles
\* and the insertion/deletion counters are not modelled.)
BuildFileIndex(rep) ==
    LET column == [b \in DOMAIN rep |-> touchCommits(<<>>, b, rep[b], 1)]
        files == UNION {DOMAIN column[b] : b \in DOMAIN rep}
    IN [f \in files |-> [b \in {x \in DOMAIN rep : f \in DOMAIN column[x]} |-> column[b][f]]]

\* --------------------------------------------------- BuildCoChangeMatrix
RECURSIVE SumOver(_, _)
\* the sum of F[x] over the elements of S
SumOver(F, S) ==
    IF S = {} THEN 0
    ELSE LET x == CHOOSE y \in S : TRUE IN F[x] + SumOver(F, S \ {x})

\* the normalized, non-empty paths of one commit, repetitions kept
commitFiles(c) == SelectSeq([j \in 1..Len(c.Files) |-> normalizePath(c.Files[j])],
                            LAMBDA f : f # <<>>)

Occurrences(files, f) == Cardinality({j \in DOMAIN files : files[j] = f})

\* the (i, j) pairs with i # j, files[i] = A and files[j] = B
PairCount(files, A, B) ==
    Cardinality({ij \in (DOMAIN files) \X (DOMAIN files) :
                    ij[1] # ij[2] /\ files[ij[1]] = A /\ files[ij[2]] = B})

\* every commit is processed once (processedCommits): FileCommitCounts[file]
\* grows by one per entry of the commit's list, Matrix[A][B] by one per
\* pair of positions
BuildCoChangeMatrix(rep) ==
    LET commits == CommitsOf(rep)
        files == UNION {Range(commitFiles(c)) : c \in commits}
        pairs == {ab \in files \X files :
                     \E c \in commits : PairCount(commitFiles(c), ab[1], ab[2]) > 0}
    IN [Matrix |-> [ab \in pairs |->
                       SumOver([c \in commits |-> PairCount(commitFiles(c), ab[1], ab[2])],
                               commits)],
        FileCommitCounts |-> [f \in files |->
                       SumOver([c \in commits |-> Occurrences(commitFiles(c), f)], commits)]]

NewFileLookup ==
    /\ fpc = "report"
    /\ fpc' = "ready"
    /\ fl' = [index |-> BuildFileIndex(report), beads |-> report,
              coChange |-> BuildCoChangeMatrix(report)]
    /\ UNCHANGED <<report, call, lookupResult, hotspots, impact>>
    /\ UNCHANGED nonFileVars


\* --------------------------------------------------------------- lookups
\* a classification that takes closed for a status to skip, like tombstone
classifyClosedLikeSkipped(status) ==
    IF status \in {"tombstone", "closed"} THEN "skip" ELSE "open"

\* classifyBeadStatus: the bucket of a status, "skip" for a tombstone
classifyBeadStatus(status) ==
    IF status = "tombstone" THEN "skip"
    ELSE IF status = "closed" THEN "closed"
    ELSE "open"

\* the reference with the current status from the beads map, if it has one
liveRef(flk, ref) ==
    IF ref.BeadID \in DOMAIN flk.beads
    THEN [ref EXCEPT !.Status = flk.beads[ref.BeadID].Status]
    ELSE ref

\* the less function of sortBeadRefs: later touch first, then identifier
refLess(r1, r2) ==
    IF r1.LastTouch = r2.LastTouch THEN r1.BeadID < r2.BeadID
    ELSE r1.LastTouch > r2.LastTouch

RECURSIVE sortBeadRefs(_)
\* sortBeadRefs on references of distinct beads: refLess is a total order on
\* them, so the sorted list is unique
sortBeadRefs(refs) ==
    IF refs = {} THEN <<>>
    ELSE LET first == CHOOSE r \in refs : \A o \in refs \ {r} : refLess(r, o)
         IN <<first>> \o sortBeadRefs(refs \ {first})

\* the result of one lookup from the references it appended
lookupResultOf(refs) ==
    LET open == sortBeadRefs({r \in refs : classifyBeadStatus(r.Status) = "open"})
        closed == sortBeadRefs({r \in refs : classifyBeadStatus(r.Status) = "closed"})
    IN [OpenBeads |-> open, ClosedBeads |-> closed, TotalBeads |-> Len(open) + Len(closed)]

\* the scan of the files in `order` (an iteration order of the index map)
\* that appends a bead's reference unless its list holds the bead already:
\* per bead, the reference of the first file that has it
firstSeen(flk, order) ==
    LET beadsMet == UNION {DOMAIN flk.index[order[i]] : i \in DOMAIN order}
    IN {liveRef(flk, flk.index[order[Min({i \in DOMAIN order :
                                            b \in DOMAIN flk.index[order[i]]})]][b]) :
           b \in beadsMet}

HasPrefix(str, prefix) == Len(str) >= Len(prefix) /\ SubSeq(str, 1, Len(prefix)) = prefix

\* LookupByFile: the results it can return, one per iteration order of the
\* index map when the path is looked up as a directory
LookupByFile(flk, p) ==
    LET normalizedPath == normalizePath(p)
    IN IF normalizedPath \in DOMAIN flk.index
       THEN {lookupResultOf({liveRef(flk, flk.index[normalizedPath][b]) :
                                b \in DOMAIN flk.index[normalizedPath]})}
       ELSE LET under == {f \in DOMAIN flk.index : HasPrefix(f, normalizedPath \o <<"/">>)}
            IN {lookupResultOf(firstSeen(flk, order)) : order \in Orders(under)}

RECURSIVE Match(_, _)
\* filepath.Match for patterns of literal characters, * and ?
Match(pattern, name) ==
    IF pattern = <<>> THEN name = <<>>
    ELSE IF Head(pattern) = "*"
         THEN \/ Match(Tail(pattern), name)
              \/ name # <<>> /\ Head(name) # "/" /\ Match(pattern, Tail(name))
    ELSE IF Head(pattern) = "?"
         THEN name # <<>> /\ Head(name) # "/" /\ Match(Tail(pattern), Tail(name))
    ELSE name # <<>> /\ Head(name) = Head(pattern) /\ Match(Tail(pattern), Tail(name))

\* LookupByFileGlob: seenOpen/seenClosed keep the first reference of a bead
LookupByFileGlob(flk, pattern) ==
    LET matched == {f \in DOMAIN flk.index : Match(pattern, f)}
    IN {lookupResultOf(firstSeen(flk, order)) : order \in Orders(matched)}

\* the entry of one file: every reference counts, open is every status
\* other than closed
hotspotOf(flk, f) ==
    LET refs == {liveRef(flk, flk.index[f][b]) : b \in DOMAIN flk.index[f]}
        openCount == Cardinality({r \in refs : r.Status # "closed"})
    IN [FilePath |-> f, TotalBeads |-> Cardinality(refs), OpenBeads |-> openCount,
        ClosedBeads |-> Cardinality(refs) - openCount]

\* GetHotspots: the files by reference count descending (files of equal
\* count in any order), cut at limit
GetHotspots(flk, limit) ==
    LET sorted == {o \in Orders(DOMAIN flk.index) :
                      \A i, j \in DOMAIN o :
                          i < j => Cardinality(DOMAIN flk.index[o[i]])
                                       >= Cardinality(DOMAIN flk.index[o[j]])}
        n == IF limit <= 0 \/ limit > Cardinality(DOMAIN flk.index)
             THEN Cardinality(DOMAIN flk.index) ELSE limit
    IN {[i \in 1..n |-> hotspotOf(flk, o[i])] : o \in sorted}


\* -------------------------------------------------------- ImpactAnalysis
RECURSIVE TrimSpace(_)
\* strings.TrimSpace, for the blank character
TrimSpace(p) ==
    IF p # <<>> /\ Head(p) = " " THEN TrimSpace(Tail(p))
    ELSE IF p # <<>> /\ p[Len(p)] = " " THEN TrimSpace(SubSeq(p, 1, Len(p) - 1))
    ELSE p

RECURSIVE normalizeFiles(_, _, _)
\* the loop that normalizes the input paths, drops the empty ones and keeps
\* the first of equal ones
normalizeFiles(files, i, normalizedFiles) ==
    IF i > Len(files) THEN normalizedFiles
    ELSE LET norm == TrimSpace(normalizePath(files[i]))
         IN normalizeFiles(files, i + 1,
                IF norm = <<>> \/ norm \in Range(normalizedFiles) THEN normalizedFiles
                ELSE Append(normalizedFiles, norm))

\* a closed bead counts whatever the age of its touch
anyAge(ref) == TRUE

\* now.Sub(ref.LastTouch) > 7*24*time.Hour does not hold
recentlyTouched(ref) == ~(NowDay - ref.LastTouch > RecentDays)

RECURSIVE addRefs(_, _, _, _, _)
\* one of the two loops over a lookup's lists (closedLoop: the second one,
\* which skips the references touched too long ago)
addRefs(beadMap, refs, k, filePath, closedLoop) ==
    IF k > Len(refs) THEN beadMap
    ELSE LET ref == refs[k]
             ab == IF ref.BeadID \in DOMAIN beadMap THEN beadMap[ref.BeadID]
                   ELSE [BeadID |-> ref.BeadID, Status |-> ref.Status,
                         OverlapFiles |-> <<>>, OverlapCount |-> 0,
                         LastActivity |-> ref.LastTouch]
             ab2 == [ab EXCEPT !.OverlapFiles = Append(@, filePath),
                               !.OverlapCount = Len(ab.OverlapFiles) + 1,
                               !.LastActivity = IF ref.LastTouch > @ THEN ref.LastTouch
                                                ELSE @]
         IN IF closedLoop /\ ~recentlyTouched(ref)
            THEN addRefs(beadMap, refs, k + 1, filePath, closedLoop)
            ELSE addRefs((ref.BeadID :> ab2) @@ beadMap, refs, k + 1, filePath, closedLoop)

RECURSIVE impactLoop(_, _, _, _)
\* the loop over normalizedFiles[i..]: the bead maps it can end with
impactLoop(flk, normalizedFiles, i, beadMap) ==
    IF i > Len(normalizedFiles) THEN {beadMap}
    ELSE UNION {impactLoop(flk, normalizedFiles, i + 1,
                    addRefs(addRefs(beadMap, lookup.OpenBeads, 1, normalizedFiles[i], FALSE),
                            lookup.ClosedBeads, 1, normalizedFiles[i], TRUE))
                : lookup \in LookupByFile(flk, normalizedFiles[i])}

\* statusPriority[status]: a status the map lacks reads as 0
statusPriority(status) ==
    IF status = "in_progress" THEN 0
    ELSE IF status = "open" THEN 1
    ELSE IF status = "closed" THEN 2
    ELSE 0

\* ten times the status multiplier
statusMultiplier(status) ==
    IF status = "in_progress" THEN 10 ELSE IF status = "open" THEN 8 ELSE 5

\* the relevance of an affected bead, in units of 1 / (350 * nFiles):
\* recencyScore * 0.4 + overlapScore * 0.4 + statusMultiplier * 0.2
Relevance(ab, nFiles) ==
    LET daysSince == NowDay - ab.LastActivity
        recency == IF RecentDays - daysSince < 0 THEN 0 ELSE RecentDays - daysSince
    IN recency * 20 * nFiles + ab.OverlapCount * 140 + statusMultiplier(ab.Status) * 7 * nFiles

\* the less function of the sort of the affected beads
affectedLess(a, b) ==
    IF statusPriority(a.Status) # statusPriority(b.Status)
    THEN statusPriority(a.Status) < statusPriority(b.Status)
    ELSE a.Relevance > b.Relevance

\* the risk score in hundredths, clamped to 1.0
riskScore(inProgressCount, openCount, recentClosedCount, nFiles) ==
    LET raw == inProgressCount * 40 + openCount * 20 + recentClosedCount * 5
               + (IF nFiles > 3 THEN 10 ELSE 0)
    IN IF raw > 100 THEN 100 ELSE raw

riskLevel(score) ==
    IF score >= 70 THEN "critical"
    ELSE IF score >= 40 THEN "high"
    ELSE IF score >= 20 THEN "medium"
    ELSE "low"

\* the results one bead map gives: the affected beads in any order the sort
\* can leave them in (entries that compare equal stay in map order).  The
\* warnings are not modelled; of the summary, only which kind it is.
impactResults(normalizedFiles, beadMap) ==
    LET nFiles == Len(normalizedFiles)
        affected == [b \in DOMAIN beadMap |->
                        [BeadID |-> b, Status |-> beadMap[b].Status,
                         OverlapFiles |-> beadMap[b].OverlapFiles,
                         OverlapCount |-> beadMap[b].OverlapCount,
                         LastActivity |-> beadMap[b].LastActivity,
                         Relevance |-> Relevance(beadMap[b], nFiles)]]
        inProgressCount == Cardinality({b \in DOMAIN beadMap :
                                           beadMap[b].Status = "in_progress"})
        openCount == Cardinality({b \in DOMAIN beadMap : beadMap[b].Status = "open"})
        recentClosedCount == Cardinality(DOMAIN beadMap) - inProgressCount - openCount
        score == riskScore(inProgressCount, openCount, recentClosedCount, nFiles)
        sorted == {o \in Orders(DOMAIN beadMap) :
                      \A i, j \in DOMAIN o :
                          i < j => ~affectedLess(affected[o[j]], affected[o[i]])}
    IN {[Files |-> normalizedFiles,
         AffectedBeads |-> [i \in 1..Len(o) |-> affected[o[i]]],
         RiskLevel |-> riskLevel(score),
         RiskScore |-> score,
         Summary |-> IF DOMAIN beadMap = {} THEN "No beads found touching these files"
                     ELSE IF inProgressCount > 0 THEN "Conflict risk"
                     ELSE "Found"] : o \in sorted}

ImpactAnalysis(flk, files) ==
    IF Len(files) = 0 THEN {[NoImpact EXCEPT !.Summary = "No files to analyze"]}
    ELSE LET normalizedFiles == normalizeFiles(files, 1, <<>>)
         IN IF Len(normalizedFiles) = 0
            THEN {[NoImpact EXCEPT !.Summary = "No valid files to analyze"]}
            ELSE UNION {impactResults(normalizedFiles, beadMap) :
                           beadMap \in impactLoop(flk, normalizedFiles, 1, <<>>)}

\* ------------------------------------------------- calls on a FileLookup
\* the paths, patterns, limits and file lists the calls are made with
Queries == {P_da, P_dot_da, P_db, P_d}

Patterns == {<<"d", "/", "*">>}

Limits == {0, 1}

ImpactInputs == {<<>>, << <<>> >>, <<P_da>>, <<P_db, P_dot_da, P_da>>,
                 <<P_da, P_db, P_dc, P_a>>, <<P_d>>}

\* a process builds its FileLookup and asks it one question; a further run
\* on the same report asks the same question again
MayCall(op, arg) == call = NoCall \/ call = [op |-> op, arg |-> arg]

callLookupByFile ==
    /\ fpc = "ready"
    /\ \E q \in {x \in Queries : MayCall("LookupByFile", x)} :
          \E r \in LookupByFile(fl, q) :
          /\ call' = [op |-> "LookupByFile", arg |-> q]
          /\ lookupResult' = r
    /\ hotspots' = <<>>
    /\ impact' = NoImpact
    /\ UNCHANGED <<report, fpc, fl>>
    /\ UNCHANGED nonFileVars

callLookupByFileGlob ==
    /\ fpc = "ready"
    /\ \E pattern \in {x \in Patterns : MayCall("LookupByFileGlob", x)} :
          \E r \in LookupByFileGlob(fl, pattern) :
          /\ call' = [op |-> "LookupByFileGlob", arg |-> pattern]
          /\ lookupResult' = r
    /\ hotspots' = <<>>
    /\ impact' = NoImpact
    /\ UNCHANGED <<report, fpc, fl>>
    /\ UNCHANGED nonFileVars

callGetHotspots ==
    /\ fpc = "ready"
    /\ \E limit \in {x \in Limits : MayCall("GetHotspots", <<x>>)} :
          \E r \in GetHotspots(fl, limit) :
          /\ call' = [op |-> "GetHotspots", arg |-> <<limit>>]
          /\ hotspots' = r
    /\ lookupResult' = NoLookupResult
    /\ impact' = NoImpact
    /\ UNCHANGED <<report, fpc, fl>>
    /\ UNCHANGED nonFileVars

callImpactAnalysis ==
    /\ fpc = "ready"
    /\ \E files \in {x \in ImpactInputs : MayCall("ImpactAnalysis", x)} :
          \E r \in ImpactAnalysis(fl, files) :
          /\ call' = [op |-> "ImpactAnalysis", arg |-> files]
          /\ impact' = r
    /\ lookupResult' = NoLookupResult
    /\ hotspots' = <<>>
    /\ UNCHANGED <<report, fpc, fl>>
    /\ UNCHANGED nonFileVars

NextFiles ==
    \/ addHistory
    \/ addCommit
    \/ NewFileLookup
    \/ callLookupByFile
    \/ callLookupByFileGlob
    \/ callGetHotspots
    \/ callImpactAnalysis

SpecFiles == Init /\ [][NextFiles]_vars


\* ======================================================================
\* package correlation: related work discovery
\* ======================================================================
MaxRelated == 3
MaxRelatedDeps == 2

RelatedIDs == 1..MaxRelated

\* a status that is reported, one reported on request, one never reported
RelatedStatuses == {"open", "closed", "tombstone"}

\* a commit that changes one file, and an earlier commit that lists no file
CommitWithFile == [SHA |-> 1, Timestamp |-> 5, Files |-> <<P_da>>]

CommitWithoutFiles == [SHA |-> 2, Timestamp |-> 0, Files |-> <<>>]

\* the commit lists of a history
CommitLists == {<<>>, <<CommitWithFile>>, <<CommitWithoutFiles>>}

\* DefaultRelatedWorkOptions: MinRelevance, and ConcurrencyWindow in days
MinRelevance == 20

ConcurrencyWindow == 7

\* MaxResults: unlimited, or one result per category
MaxResultsOptions == {0, 1}

RECURSIVE indexCommits(_, _, _, _)
\* CommitIndex: commit hash -> the beads whose histories hold the commit
indexCommits(index, beadID, commits, i) ==
    IF i > Len(commits) THEN index
    ELSE LET sha == commits[i].SHA
             beads == IF sha \in DOMAIN index THEN index[sha] ELSE <<>>
         IN indexCommits((sha :> Append(beads, beadID)) @@ index, beadID, commits, i + 1)

\* the correlator adds the history of one more bead, with its commits (the
\* milestone events of a history are not modelled: Created and Closed are
\* nil, so a bead's activity starts at its first commit and has not ended)
addBeadHistory ==
    /\ rpc = "report"
    /\ \E b \in RelatedIDs, s \in RelatedStatuses, commits \in CommitLists :
          /\ \A x \in DOMAIN hr.Histories : x < b
          /\ hr' = [Histories |-> (b :> [Status |-> s, Commits |-> commits]) @@ hr.Histories,
                    CommitIndex |-> indexCommits(hr.CommitIndex, b, commits, 1)]
    /\ UNCHANGED <<dependencyGraph, rpc, relatedCall, related>>
    /\ UNCHANGED nonRelatedVars

\* the caller makes the map of the DependencyGraph option
makeDependencyGraph ==
    /\ rpc = "report"
    /\ ~dependencyGraph.supplied
    /\ dependencyGraph' = [supplied |-> TRUE, deps |-> <<>>]
    /\ UNCHANGED <<hr, rpc, relatedCall, related>>
    /\ UNCHANGED nonRelatedVars

\* the (bead, dependency) pairs of a dependency map
DepPairs(deps) == UNION {{<<b, deps[b][k]>> : k \in DOMAIN deps[b]} : b \in DOMAIN deps}

\* the caller enters one dependency of a bead (taken from the issue list in
\* ascending order); neither end need have a history
addDependency ==
    /\ rpc = "report"
    /\ dependencyGraph.supplied
    /\ Cardinality(DepPairs(dependencyGraph.deps)) < MaxRelatedDeps
    /\ \E b, d \in RelatedIDs :
          LET deps == dependencyGraph.deps
              old == IF b \in DOMAIN deps THEN deps[b] ELSE <<>>
          IN /\ \A p \in DepPairs(deps) : p[1] < b \/ (p[1] = b /\ p[2] < d)
             /\ dependencyGraph' = [supplied |-> TRUE,
                                    deps |-> (b :> Append(old, d)) @@ deps]
    /\ UNCHANGED <<hr, rpc, relatedCall, related>>
    /\ UNCHANGED nonRelatedVars

\* shouldSkipRelatedStatus (the statuses here are lower case and trimmed
\* already, which is what normalizeStatus would make them)
shouldSkipRelatedStatus(status, includeClosed) ==
    \/ status = "tombstone"
    \/ ~includeClosed /\ status = "closed"

\* the less function of sortRelatedResults
relatedLess(a, b) ==
    IF a.Relevance = b.Relevance THEN a.BeadID < b.BeadID ELSE a.Relevance > b.Relevance

RECURSIVE sortRelatedResults(_)
\* sortRelatedResults on results of distinct beads (every category collects
\* its candidates in a map keyed by bead)
sortRelatedResults(results) ==
    IF results = {} THEN <<>>
    ELSE LET first == CHOOSE r \in results : \A o \in results \ {r} : relatedLess(r, o)
         IN <<first>> \o sortRelatedResults(results \ {first})

\* results[:opts.MaxResults] when MaxResults is positive and exceeded
limitResults(results, opts) ==
    IF opts.MaxResults > 0 /\ Len(results) > opts.MaxResults
    THEN SubSeq(results, 1, opts.MaxResults) ELSE results

RelatedWorkBead(H, beadID, type, relevance) ==
    [BeadID |-> beadID, Status |-> H[beadID].Status, RelationType |-> type,
     Relevance |-> relevance]

\* a seen map that is never written after the target went in
seenTargetOnly(seen, results) == seen

\* the loop that sets seen[rb.BeadID] for the results of one category
markSeen(seen, results) == seen \cup {results[i].BeadID : i \in DOMAIN results}

\* findFileOverlap, given the lookup of every target file
findFileOverlap(H, targetFiles, lookup, opts, seen) ==
    IF targetFiles = {} THEN <<>>
    ELSE LET listed(file) ==
                 {lookup[file].OpenBeads[i].BeadID : i \in DOMAIN lookup[file].OpenBeads}
                 \cup (IF opts.IncludeClosed
                       THEN {lookup[file].ClosedBeads[i].BeadID :
                                i \in DOMAIN lookup[file].ClosedBeads}
                       ELSE {})
             sharedFiles(b) == {file \in targetFiles : b \in listed(file)}
             overlapCount == UNION {listed(file) : file \in targetFiles} \ seen
             relevance(b) ==
                 Min({100, (Cardinality(sharedFiles(b)) * 100) \div Cardinality(targetFiles)})
         IN limitResults(sortRelatedResults(
                {RelatedWorkBead(H, b, "file_overlap", relevance(b)) :
                    b \in {x \in overlapCount \cap DOMAIN H :
                              /\ ~shouldSkipRelatedStatus(H[x].Status, opts.IncludeClosed)
                              /\ relevance(x) >= opts.MinRelevance}}), opts)

findCommitOverlap(H, commitIndex, targetID, targetCommits, opts, seen) ==
    IF targetCommits = {} THEN <<>>
    ELSE LET indexed == targetCommits \cap DOMAIN commitIndex
             sharedSHAs(b) == {sha \in indexed : b \in Range(commitIndex[sha])}
             sharedCount == UNION {Range(commitIndex[sha]) : sha \in indexed}
                            \ (seen \cup {targetID})
             relevance(b) ==
                 Min({100, (Cardinality(sharedSHAs(b)) * 100) \div Cardinality(targetCommits)})
         IN limitResults(sortRelatedResults(
                {RelatedWorkBead(H, b, "commit_overlap", relevance(b)) :
                    b \in {x \in sharedCount \cap DOMAIN H :
                              /\ ~shouldSkipRelatedStatus(H[x].Status, opts.IncludeClosed)
                              /\ relevance(x) >= opts.MinRelevance}}), opts)

\* findDependencyCluster: cluster is the map bead -> hop distance; the
\* second hop follows the dependency lists of the first-hop beads
findDependencyCluster(H, deps, targetID, opts, seen) ==
    LET direct == IF targetID \in DOMAIN deps
                  THEN {depID \in Range(deps[targetID]) : depID \notin seen} ELSE {}
        reverse == {beadID \in DOMAIN deps :
                       beadID \notin seen /\ targetID \in Range(deps[beadID])}
        firstHop == direct \cup reverse
        secondHop == {depID \in UNION {Range(deps[hopID]) : hopID \in firstHop \cap DOMAIN deps} :
                         depID \notin seen /\ depID # targetID /\ depID \notin firstHop}
        relevance(b) == IF b \in secondHop THEN 40 ELSE 80
    IN limitResults(sortRelatedResults(
           {RelatedWorkBead(H, b, "dependency_cluster", relevance(b)) :
               b \in {x \in (firstHop \cup secondHop) \cap DOMAIN H :
                         /\ ~shouldSkipRelatedStatus(H[x].Status, opts.IncludeClosed)
                         /\ relevance(x) >= opts.MinRelevance}}), opts)

\* findConcurrent for histories without milestones: a window starts at the
\* first commit and ends at time.Now()
findConcurrent(H, targetID, opts, seen) ==
    IF H[targetID].Commits = <<>> THEN <<>>
    ELSE LET targetStart == H[targetID].Commits[1].Timestamp
             targetEnd == NowDay
             windowStart == targetStart - ConcurrencyWindow
             windowEnd == targetEnd + ConcurrencyWindow
             beadStart(b) == H[b].Commits[1].Timestamp
             beadEnd == NowDay
             overlapDuration(b) == Min({beadEnd, windowEnd}) - Max({beadStart(b), windowStart})
             targetDuration == targetEnd - targetStart
             relevance(b) ==
                 IF targetDuration > 0
                 THEN Min({100, 30 + (overlapDuration(b) * 50) \div targetDuration})
                 ELSE 30
         IN limitResults(sortRelatedResults(
                {RelatedWorkBead(H, b, "concurrent", relevance(b)) :
                    b \in {x \in DOMAIN H \ seen :
                              /\ ~shouldSkipRelatedStatus(H[x].Status, opts.IncludeClosed)
                              /\ H[x].Commits # <<>>
                              /\ ~(beadStart(x) > windowEnd)
                              /\ ~(beadEnd < windowStart)
                              /\ relevance(x) >= opts.MinRelevance}}), opts)

\* the result of FindRelatedWork for one outcome of the file lookups
relatedWorkResult(hrr, graph, targetID, opts, targetFiles, lookup) ==
    LET H == hrr.Histories
        targetCommits == {c.SHA : c \in Range(H[targetID].Commits)}
        fileOverlap == findFileOverlap(H, targetFiles, lookup, opts, {targetID})
        seen1 == markSeen({targetID}, fileOverlap)
        commitOverlap == findCommitOverlap(H, hrr.CommitIndex, targetID, targetCommits,
                                           opts, seen1)
        seen2 == markSeen(seen1, commitOverlap)
        dependencyCluster == IF graph.supplied
                             THEN findDependencyCluster(H, graph.deps, targetID, opts, seen2)
                             ELSE <<>>
        seen3 == markSeen(seen2, dependencyCluster)
        concurrent == findConcurrent(H, targetID, opts, seen3)
    IN [TargetBeadID |-> targetID, FileOverlap |-> fileOverlap,
        CommitOverlap |-> commitOverlap, DependencyCluster |-> dependencyCluster,
        Concurrent |-> concurrent,
        TotalRelated |-> Len(fileOverlap) + Len(commitOverlap) + Len(dependencyCluster)
                         + Len(concurrent)]

\* FindRelatedWork without a pre-built file lookup: nil (the empty result
\* here) for a target without history
FindRelatedWork(hrr, graph, targetID, opts) ==
    IF targetID \notin DOMAIN hrr.Histories THEN {NoRelatedWork}
    ELSE LET H == hrr.Histories
             fileLookup == [index |-> BuildFileIndex(H), beads |-> H,
                            coChange |-> BuildCoChangeMatrix(H)]
             targetFiles == UNION {{normalizePath(c.Files[j]) : j \in DOMAIN c.Files} :
                                      c \in Range(H[targetID].Commits)}
             outcomes == UNION {LookupByFile(fileLookup, file) : file \in targetFiles}
             lookups == {L \in [targetFiles -> outcomes] :
                            \A file \in targetFiles : L[file] \in LookupByFile(fileLookup, file)}
         IN {relatedWorkResult(hrr, graph, targetID, opts, targetFiles, lookup) :
                lookup \in lookups}

callFindRelatedWork ==
    /\ rpc = "report"
    /\ \E targetID \in RelatedIDs, includeClosed \in BOOLEAN, maxResults \in MaxResultsOptions :
          LET opts == [MinRelevance |-> MinRelevance, MaxResults |-> maxResults,
                       IncludeClosed |-> includeClosed]
          IN \E r \in FindRelatedWork(hr, dependencyGraph, targetID, opts) :
                /\ relatedCall' = [targetID |-> targetID, IncludeClosed |-> includeClosed,
                                   MaxResults |-> maxResults]
                /\ related' = r
    /\ rpc' = "called"
    /\ UNCHANGED <<hr, dependencyGraph>>
    /\ UNCHANGED nonRelatedVars

NextRelated ==
    \/ addBeadHistory
    \/ makeDependencyGraph
    \/ addDependency
    \/ callFindRelatedWork

SpecRelated == Init /\ [][NextRelated]_vars


\* ======================================================================
\* package analysis: approximate betweenness
\* ======================================================================
MaxApproxNodes == 4
MaxApproxEdges == 4

\* the sample sizes and seeds ApproxBetweenness is called with
SampleSizes == 1..(MaxApproxNodes + 1)

Seeds == {1, 2}

\* ------------------------------------------------- float64 values, exact
\* a score is kept as a fraction <<numerator, denominator>> in lowest terms
\* (the rounding of float64 arithmetic is not modelled)
RECURSIVE GCD(_, _)
GCD(a, b) == IF b = 0 THEN a ELSE GCD(b, a % b)

Frac(n, d) == LET c == GCD(IF n < 0 THEN -n ELSE n, d) IN <<n \div c, d \div c>>

FracZero == <<0, 1>>

FracAdd(x, y) == Frac(x[1] * y[2] + y[1] * x[2], x[2] * y[2])

FracMul(x, y) == Frac(x[1] * y[1], x[2] * y[2])

\* --------------------------------------------------- building the graph
\* g.AddNode(g.NewNode()): nodes get the identifiers 1, 2, ...
NewNode ==
    /\ apc = "graph"
    /\ Cardinality(g.nodes) < MaxApproxNodes
    /\ g' = [g EXCEPT !.nodes = @ \cup {Cardinality(g.nodes) + 1}]
    /\ UNCHANGED <<apc, rng, approxCall, pivots, betweenness>>
    /\ UNCHANGED nonApproxVars

\* g.SetEdge between two distinct nodes (edges are entered in ascending
\* order of their ends)
SetEdge ==
    /\ apc = "graph"
    /\ Cardinality(g.edges) < MaxApproxEdges
    /\ \E u, v \in g.nodes :
          /\ u # v
          /\ \A e \in g.edges : e[1] < u \/ (e[1] = u /\ e[2] < v)
          /\ g' = [g EXCEPT !.edges = @ \cup {<<u, v>>}]
    /\ UNCHANGED <<apc, rng, approxCall, pivots, betweenness>>
    /\ UNCHANGED nonApproxVars

\* ------------------------------------------------------------ sampleNodes
\* the nodes left in the order the graph enumerated them
enumerationOrder(nodes) == nodes

\* sort.Slice(nodes, ...) by node identifier
sortNodes(nodes) == SortAsc(Range(nodes))

RECURSIVE shuffleLoop(_, _, _, _)
\* the Fisher-Yates loop from index i (0-based) on; draws[i + 1] is what
\* rng.Intn(len(shuffled) - i) returns
shuffleLoop(shuffled, k, draws, i) ==
    IF ~(i < k) THEN shuffled
    ELSE LET j == i + draws[i + 1]
         IN shuffleLoop([shuffled EXCEPT ![i + 1] = shuffled[j + 1],
                                         ![j + 1] = shuffled[i + 1]],
                        k, draws, i + 1)

sampleNodes(nodes, k, draws) ==
    IF k >= Len(nodes) THEN nodes
    ELSE SubSeq(shuffleLoop(nodes, k, draws, 0), 1, k)

\* what a generator seeded once can return to the k calls of the loop on n
\* nodes: the i-th value lies in 0 .. n - i
DrawsOf(n, k) ==
    IF k >= n THEN {<<>>}
    ELSE {d \in [1..k -> 0..(n - 1)] : \A i \in 1..k : d[i] <= n - i}

\* ------------------------------------------------ singleSourceBetweenness
RECURSIVE FromOrdersOver(_, _)
\* the orders in which g.From(v) may yield the successors of the nodes of S
FromOrdersOver(gr, S) ==
    IF S = {} THEN {<<>>}
    ELSE LET v == CHOOSE x \in S : TRUE
         IN {(v :> o) @@ rest : o \in Orders(From(gr, v)), rest \in FromOrdersOver(gr, S \ {v})}

FromOrders(gr) == FromOrdersOver(gr, gr.nodes)

RECURSIVE visitSuccessors(_, _, _, _)
\* the loop over g.From(v), from the i-th successor on
visitSuccessors(st, v, succs, i) ==
    IF i > Len(succs) THEN st
    ELSE LET w == succs[i]
             discovered == st.dist[w] < 0
             dist == IF discovered THEN [st.dist EXCEPT ![w] = st.dist[v] + 1] ELSE st.dist
             queue == IF discovered THEN Append(st.queue, w) ELSE st.queue
             onPath == dist[w] = dist[v] + 1
         IN visitSuccessors(
                [st EXCEPT !.dist = dist, !.queue = queue,
                           !.sigma = IF onPath THEN [@ EXCEPT ![w] = @ + st.sigma[v]] ELSE @,
                           !.pred = IF onPath THEN [@ EXCEPT ![w] = Append(@, v)] ELSE @],
                v, succs, i + 1)

RECURSIVE bfsPhase(_, _, _)
bfsPhase(gr, st, order) ==
    IF st.queue = <<>> THEN st
    ELSE LET v == Head(st.queue)
         IN bfsPhase(gr,
                     visitSuccessors([st EXCEPT !.queue = Tail(@), !.stack = Append(@, v)],
                                     v, order[v], 1),
                     order)

RECURSIVE addToPredecessors(_, _, _, _, _)
\* delta[v] += (sigma[v] / sigma[w]) * (1 + delta[w]) for v in pred[w][k..]
addToPredecessors(st, delta, w, preds, k) ==
    IF k > Len(preds) THEN delta
    ELSE LET v == preds[k]
             term == FracMul(Frac(st.sigma[v], st.sigma[w]), FracAdd(<<1, 1>>, delta[w]))
         IN addToPredecessors(st,
                IF st.sigma[w] > 0 THEN [delta EXCEPT ![v] = FracAdd(@, term)] ELSE delta,
                w, preds, k + 1)

RECURSIVE accumulationCountingSource(_, _, _, _, _)
\* an accumulation that credits the source node as well
accumulationCountingSource(st, sourceID, i, delta, bc) ==
    IF i < 1 THEN bc
    ELSE LET w == st.stack[i]
             delta2 == addToPredecessors(st, delta, w, st.pred[w], 1)
             old == IF w \in DOMAIN bc THEN bc[w] ELSE FracZero
         IN accumulationCountingSource(st, sourceID, i - 1, delta2,
                                       (w :> FracAdd(old, delta2[w])) @@ bc)

RECURSIVE accumulationPhase(_, _, _, _, _)
\* the loop over the stack from its top (position i) down
accumulationPhase(st, sourceID, i, delta, bc) ==
    IF i < 1 THEN bc
    ELSE LET w == st.stack[i]
             delta2 == addToPredecessors(st, delta, w, st.pred[w], 1)
             old == IF w \in DOMAIN bc THEN bc[w] ELSE FracZero
         IN IF w = sourceID THEN accumulationPhase(st, sourceID, i - 1, delta, bc)
            ELSE accumulationPhase(st, sourceID, i - 1, delta2,
                                   (w :> FracAdd(old, delta2[w])) @@ bc)

\* singleSourceBetweenness: bc after the contribution of one source, when
\* g.From yields the successors in the orders `order`
singleSourceBetweenness(gr, sourceID, bc, order) ==
    LET st0 == [sigma |-> [n \in gr.nodes |-> IF n = sourceID THEN 1 ELSE 0],
                dist |-> [n \in gr.nodes |-> IF n = sourceID THEN 0 ELSE -1],
                pred |-> [n \in gr.nodes |-> <<>>],
                queue |-> <<sourceID>>,
                stack |-> <<>>]
        st == bfsPhase(gr, st0, order)
    IN accumulationPhase(st, sourceID, Len(st.stack), [n \in gr.nodes |-> FracZero], bc)

RECURSIVE pivotLoop(_, _, _, _)
\* the loop over pivots[i..]: the maps partialBC can end as, given the maps
\* it can be now
pivotLoop(gr, pivotList, i, bcs) ==
    IF i > Len(pivotList) THEN bcs
    ELSE pivotLoop(gr, pivotList, i + 1,
                   {singleSourceBetweenness(gr, pivotList[i], bc, order) :
                       bc \in bcs, order \in FromOrders(gr)})

\* network.Betweenness of gonum: Brandes' algorithm over every node as
\* source; a node whose score is zero gets no entry
networkBetweenness(gr, nodes) ==
    {[n \in {x \in DOMAIN bc : bc[x] # FracZero} |-> bc[n]] :
        bc \in pivotLoop(gr, nodes, 1, {<<>>})}

\* ---------------------------------------------------- ApproxBetweenness
\* ApproxBetweenness from the sorted node slice on, when the seeded
\* generator returns `draws`: the (result, pivots) pairs
ApproxBetweenness(gr, nodes, sampleSize, draws) ==
    LET n == Len(nodes)
    IN IF n = 0
       THEN {[result |-> [Scores |-> <<>>, Mode |-> "approximate",
                          SampleSize |-> sampleSize, TotalNodes |-> 0],
              pivots |-> <<>>]}
       ELSE IF sampleSize >= n
       THEN {[result |-> [Scores |-> exact, Mode |-> "exact", SampleSize |-> n,
                          TotalNodes |-> n],
              pivots |-> <<>>] : exact \in networkBetweenness(gr, nodes)}
       ELSE LET pivotList == sampleNodes(nodes, sampleSize, draws)
                scale == Frac(n, sampleSize)
            IN {[result |-> [Scores |-> [id \in DOMAIN partialBC |->
                                            FracMul(partialBC[id], scale)],
                             Mode |-> "approximate", SampleSize |-> sampleSize,
                             TotalNodes |-> n],
                 pivots |-> pivotList] : partialBC \in pivotLoop(gr, pivotList, 1, {<<>>})}

\* one run of ApproxBetweenness on the graph; a later run has the same
\* graph, sample size and seed
callApproxBetweenness ==
    /\ apc \in {"graph", "called"}
    /\ \E sampleSize \in {k \in SampleSizes : apc = "called" => k = approxCall.sampleSize} :
          \* graph.NodesOf(g.Nodes()) in any order, then the sort
          \E nodes \in {sortNodes(enumerated) : enumerated \in Orders(g.nodes)},
             draws \in {d \in DrawsOf(Cardinality(g.nodes), sampleSize) :
                           rng.known => d = rng.draws} :
             \E r \in ApproxBetweenness(g, nodes, sampleSize, draws) :
                \E seed \in {x \in Seeds : apc = "called" => x = approxCall.seed} :
                   /\ approxCall' = [sampleSize |-> sampleSize, seed |-> seed]
                   /\ rng' = [known |-> TRUE, draws |-> draws]
                   /\ pivots' = r.pivots
                   /\ betweenness' = r.result
    /\ apc' = "called"
    /\ UNCHANGED g
    /\ UNCHANGED nonApproxVars

NextApprox ==
    \/ NewNode
    \/ SetEdge
    \/ callApproxBetweenness

SpecApprox == Init /\ [][NextApprox]_vars


\* ======================================================================
\* package analysis: track labels
\* ======================================================================
MaxTrackNum == 730

MaxTrackIssues == 4

\* the dependency lists of an issue of a small tracker: none, or one
\* blocking dependency on another issue
TrackDependencies(id) ==
    {<<>>} \cup {<<[DependsOnID |-> d, Type |-> DepBlocks]>> : d \in (1..MaxTrackIssues) \ {id}}

\* the issue lists of such a tracker: MaxTrackIssues open issues
TrackInputs ==
    {[id \in 1..MaxTrackIssues |->
         [ID |-> id, Status |-> StatusOpen, Priority |-> 2, Dependencies |-> deps[id]]] :
        deps \in {d \in [1..MaxTrackIssues ->
                            UNION {TrackDependencies(id) : id \in 1..MaxTrackIssues}] :
                     \A id \in 1..MaxTrackIssues : d[id] \in TrackDependencies(id)}}

\* one run of the loader (queryIssues, then attachDependencies) on such a
\* tracker
loadIssues ==
    /\ pc = "query"
    /\ trackID = NoTrackID
    /\ issues = <<>>
    /\ issues' \in TrackInputs
    /\ pc' = "attach"
    /\ UNCHANGED <<g, idToNode, nodeToID, issueMap, last, stats, plan>>
    /\ UNCHANGED nonGraphVars

\* GenerateTrackIDForTest(n): the label function on its own
callGenerateTrackID ==
    /\ pc = "query"
    /\ trackID = NoTrackID
    /\ issues = <<>>
    /\ \E n \in 1..MaxTrackNum :
          /\ labelNum' = n
          /\ trackID' = generateTrackID(n)
    /\ UNCHANGED nonTrackVars

NextTracks ==
    \/ loadIssues
    \/ NewAnalyzer
    \/ GetExecutionPlan
    \/ callGenerateTrackID

SpecTracks == Init /\ [][NextTracks]_vars


\* ======================================================================
\* package triage: proposals of a triage branch
\* ======================================================================
MaxTriageIssues == 2
MaxRecommendations == 1

StatusInProgress == "in_progress"
StatusDeferred == "deferred"
StatusPinned == "pinned"

ChangePriority == "priority"
ChangeLabel == "label_add"

\* Status.IsClosed
IsClosed(status) == status = StatusClosed

\* x >= y on float64 values kept as exact fractions
FracGE(x, y) == x[1] * y[2] >= y[1] * x[2]

\* suggestPriority without its final comparison
suggestPriorityFromScore(score, currentPriority) ==
    IF FracGE(score, Frac(25, 100)) THEN 0
    ELSE IF FracGE(score, Frac(18, 100)) THEN 1
    ELSE IF FracGE(score, Frac(12, 100)) THEN 2
    ELSE currentPriority

suggestPriority(score, currentPriority) ==
    IF ~FracGE(score, Frac(12, 100)) THEN currentPriority
    ELSE LET suggested == IF FracGE(score, Frac(25, 100)) THEN 0
                          ELSE IF FracGE(score, Frac(18, 100)) THEN 1
                          ELSE 2
         IN  IF suggested < currentPriority THEN suggested ELSE currentPriority

\* issueMap[id] of generateProposals: the last issue of the list with the ID
inIssueMap(list, id) == \E i \in DOMAIN list : list[i].ID = id

issueMapAt(list, id) == list[Max({i \in DOMAIN list : list[i].ID = id})]

\* fmt.Sprintf("P%d", priority)
formatPriority(priority) == <<"P", priority>>

RECURSIVE priorityProposals(_, _, _)
\* Proposal 1: one proposal per recommendation whose suggested priority
\* differs from the priority of its open issue
priorityProposals(list, recs, k) ==
    IF k > Len(recs) THEN <<>>
    ELSE LET rec == recs[k]
             rest == priorityProposals(list, recs, k + 1)
         IN  IF ~inIssueMap(list, rec.ID) \/ IsClosed(issueMapAt(list, rec.ID).Status)
             THEN rest
             ELSE LET issue == issueMapAt(list, rec.ID)
                      suggestedPriority == suggestPriority(rec.Score, issue.Priority)
                  IN  IF suggestedPriority # issue.Priority
                      THEN <<[IssueID |-> issue.ID, ChangeType |-> ChangePriority,
                              Field |-> "priority",
                              OldValue |-> formatPriority(issue.Priority),
                              NewValue |-> formatPriority(suggestedPriority),
                              Score |-> rec.Score]>> \o rest
                      ELSE rest

RECURSIVE staleProposals(_, _)
\* Proposal 2: label "stale" after 7 days (in progress) or 10 days (open);
\* DaysSince is int(now.Sub(issue.UpdatedAt).Hours() / 24)
staleProposals(list, i) ==
    IF i > Len(list) THEN <<>>
    ELSE LET issue == list[i]
             rest == staleProposals(list, i + 1)
             threshold == IF issue.Status = StatusInProgress THEN 7 ELSE 10
         IN  IF IsClosed(issue.Status) \/ issue.Status = StatusDeferred
                \/ issue.Status = StatusPinned
             THEN rest
             ELSE IF "stale" \in issueMapAt(list, issue.ID).Labels THEN rest
             ELSE IF issue.DaysSince >= threshold
             THEN <<[IssueID |-> issue.ID, ChangeType |-> ChangeLabel,
                     Field |-> "label", OldValue |-> <<>>, NewValue |-> <<"stale">>,
                     Score |-> Frac(issue.DaysSince, 30)]>> \o rest
             ELSE rest

RECURSIVE blockerProposals(_, _, _)
\* Proposal 3: label "critical-path" on a blocker that unblocks 3 or more
blockerProposals(list, blockers, k) ==
    IF k > Len(blockers) THEN <<>>
    ELSE LET blocker == blockers[k]
             rest == blockerProposals(list, blockers, k + 1)
         IN  IF ~inIssueMap(list, blocker.ID) \/ IsClosed(issueMapAt(list, blocker.ID).Status)
             THEN rest
             ELSE IF "critical-path" \in issueMapAt(list, blocker.ID).Labels THEN rest
             ELSE IF blocker.UnblocksCount >= 3
             THEN <<[IssueID |-> blocker.ID, ChangeType |-> ChangeLabel,
                     Field |-> "label", OldValue |-> <<>>,
                     NewValue |-> <<"critical-path">>,
                     Score |-> Frac(blocker.UnblocksCount, 10)]>> \o rest
             ELSE rest

RECURSIVE quickWinProposals(_, _, _)
\* Proposal 4: label "quick-win" on every quick win not labelled yet
quickWinProposals(list, wins, k) ==
    IF k > Len(wins) THEN <<>>
    ELSE LET qw == wins[k]
             rest == quickWinProposals(list, wins, k + 1)
         IN  IF ~inIssueMap(list, qw.ID) \/ IsClosed(issueMapAt(list, qw.ID).Status)
             THEN rest
             ELSE IF "quick-win" \in issueMapAt(list, qw.ID).Labels THEN rest
             ELSE <<[IssueID |-> qw.ID, ChangeType |-> ChangeLabel,
                     Field |-> "label", OldValue |-> <<>>,
                     NewValue |-> <<"quick-win">>, Score |-> qw.Score]>> \o rest

generateProposals(list, triage) ==
    priorityProposals(list, triage.Recommendations, 1)
    \o staleProposals(list, 1)
    \o blockerProposals(list, triage.BlockersToClear, 1)
    \o quickWinProposals(list, triage.QuickWins, 1)

\* the scores on both sides of every threshold of suggestPriority
Scores == {Frac(0, 1), Frac(119, 1000), Frac(12, 100), Frac(179, 1000),
           Frac(18, 100), Frac(249, 1000), Frac(25, 100), Frac(1, 1)}

TriagePriorities == 0..4

\* the labels of an issue: none, or the three labels the proposals add
TriageLabelSets == {{}, {"stale", "critical-path", "quick-win"}}

\* issues of a triage run: the i-th carries the ID i; an issue is 7 days
\* old and unlabelled, or 10 days old and labelled
TriageIssueLists ==
    UNION {{list \in [1..n -> [ID : 1..MaxTriageIssues,
                               Status : {StatusOpen, StatusInProgress, StatusClosed},
                               Priority : TriagePriorities,
                               Labels : TriageLabelSets,
                               DaysSince : {7, 10}]] :
               \A i \in 1..n :
                   /\ list[i].ID = i
                   /\ (list[i].Labels = {}) <=> (list[i].DaysSince = 7)} :
           n \in 1..MaxTriageIssues}

\* recommendations name an issue of the list or one that is not in it
RecommendationLists ==
    UNION {[1..n -> [ID : 1..(MaxTriageIssues + 1), Score : Scores]] :
               n \in 0..MaxRecommendations}

\* no blockers and no quick wins, or issue 1 as both
TriageExtras ==
    {[BlockersToClear |-> <<>>, QuickWins |-> <<>>],
     [BlockersToClear |-> <<[ID |-> 1, UnblocksCount |-> 3]>>,
      QuickWins |-> <<[ID |-> 1, Score |-> Frac(1, 2)]>>]}

callGenerateProposals ==
    /\ ~triageCall.called
    /\ \E list \in TriageIssueLists, recs \in RecommendationLists,
          extras \in TriageExtras :
          LET triage == [Recommendations |-> recs,
                         BlockersToClear |-> extras.BlockersToClear,
                         QuickWins |-> extras.QuickWins]
          IN  /\ triageCall' = [called |-> TRUE, issues |-> list, triage |-> triage]
              /\ proposals' = generateProposals(list, triage)
    /\ UNCHANGED nonTriageVars

NextTriage == callGenerateProposals

SpecTriage == Init /\ [][NextTriage]_vars


\* ======================================================================
\* package analysis: Analyze, statement by statement
\* ======================================================================
\* the identifiers of the graph's nodes
nodeIDs(gr) == {nodeToID[n] : n \in gr.nodes}

\* the node an identifier was written for last
nodeOf(gr, id) == Max({n \in gr.nodes : nodeToID[n] = id})

\* a map keyed by node, re-keyed by identifier as the loops of Analyze do
byID(gr, m) == [id \in {nodeToID[n] : n \in DOMAIN m} |-> m[nodeOf(gr, id)]]

\* network.PageRank, computeEigenvector, network.HITS: one score per node
scorePerNode(gr) == [n \in gr.nodes |-> "score"]

RECURSIVE simplePathsFrom(_, _)
\* the paths without repeated node that extend `walk` along edges
simplePathsFrom(gr, walk) ==
    {walk} \cup UNION {simplePathsFrom(gr, Append(walk, v)) :
                          v \in From(gr, walk[Len(walk)]) \ Range(walk)}

\* topo.DirectedCyclesIn: every elementary cycle once, its first node
\* repeated at the end; a cycle is listed from its smallest node, and the
\* list is kept as a set (the order gonum lists them in is not modelled)
directedCyclesIn(gr) ==
    {Append(walk, walk[1]) :
        walk \in {w \in UNION {simplePathsFrom(gr, <<n>>) : n \in gr.nodes} :
                     /\ w[1] = Min(Range(w))
                     /\ <<w[Len(w)], w[1]>> \in gr.edges}}

\* stats := GraphStats{...}; nodes := a.g.Nodes()
analyzeMake ==
    /\ pc = "ready"
    /\ analyzePos = "idle"
    /\ analyzePos' = "degree"
    /\ localStats' = MadeGraphStats
    /\ UNCHANGED <<topoResult, returned>>
    /\ UNCHANGED nonAnalyzeVars

\* 1. Basic Degree Centrality
analyzeDegree ==
    /\ analyzePos = "degree"
    /\ analyzePos' = "pagerank"
    /\ localStats' =
          [localStats EXCEPT
              !.InDegree = [id \in nodeIDs(g) |-> Cardinality(To(g, nodeOf(g, id)))],
              !.OutDegree = [id \in nodeIDs(g) |-> Cardinality(From(g, nodeOf(g, id)))]]
    /\ UNCHANGED <<topoResult, returned>>
    /\ UNCHANGED nonAnalyzeVars

\* 2. PageRank
analyzePageRank ==
    /\ analyzePos = "pagerank"
    /\ analyzePos' = "betweenness"
    /\ localStats' = [localStats EXCEPT !.PageRank = byID(g, scorePerNode(g))]
    /\ UNCHANGED <<topoResult, returned>>
    /\ UNCHANGED nonAnalyzeVars

\* 3. Betweenness Centrality
analyzeBetweenness ==
    /\ analyzePos = "betweenness"
    /\ analyzePos' = "eigenvector"
    /\ \E bw \in networkBetweenness(g, SortAsc(g.nodes)) :
          localStats' = [localStats EXCEPT !.Betweenness = byID(g, bw)]
    /\ UNCHANGED <<topoResult, returned>>
    /\ UNCHANGED nonAnalyzeVars

\* 3b. Eigenvector Centrality
analyzeEigenvector ==
    /\ analyzePos = "eigenvector"
    /\ analyzePos' = "hits"
    /\ localStats' = [localStats EXCEPT !.Eigenvector = byID(g, scorePerNode(g))]
    /\ UNCHANGED <<topoResult, returned>>
    /\ UNCHANGED nonAnalyzeVars

\* 3c. HITS
analyzeHITS ==
    /\ analyzePos = "hits"
    /\ analyzePos' = "cycles"
    /\ localStats' = [localStats EXCEPT !.Hubs = byID(g, scorePerNode(g)),
                                        !.Authorities = byID(g, scorePerNode(g))]
    /\ UNCHANGED <<topoResult, returned>>
    /\ UNCHANGED nonAnalyzeVars

\* 4. Cycles
analyzeCycles ==
    /\ analyzePos = "cycles"
    /\ analyzePos' = "sort"
    /\ localStats' =
          [localStats EXCEPT
              !.Cycles = {[i \in DOMAIN cycle |-> nodeToID[cycle[i]]] :
                             cycle \in directedCyclesIn(g)}]
    /\ UNCHANGED <<topoResult, returned>>
    /\ UNCHANGED nonAnalyzeVars

\* 5. Topological Sort
analyzeTopologicalSort ==
    /\ analyzePos = "sort"
    /\ analyzePos' = "heights"
    /\ \E srt \in topoSort(g) :
          /\ topoResult' = srt
          /\ localStats' =
                [localStats EXCEPT
                    !.TopologicalOrder = IF srt.err THEN <<>> ELSE rootsFirst(srt.sorted)]
    /\ UNCHANGED returned
    /\ UNCHANGED nonAnalyzeVars

\* 6. Critical Path Heuristic; computeHeights sorts the graph once more
analyzeCriticalPath ==
    /\ analyzePos = "heights"
    /\ analyzePos' = "density"
    /\ IF topoResult.err
       THEN UNCHANGED localStats
       ELSE \E srt \in topoSort(g) :
               localStats' = [localStats EXCEPT
                                 !.CriticalPathScore = computeHeights(g, srt.sorted)]
    /\ UNCHANGED <<topoResult, returned>>
    /\ UNCHANGED nonAnalyzeVars

\* 7. Density
analyzeDensity ==
    /\ analyzePos = "density"
    /\ analyzePos' = "return"
    /\ LET n == Cardinality(DOMAIN localStats.PageRank)
           e == Cardinality(g.edges)
       IN  localStats' = [localStats EXCEPT
                             !.Density = IF n > 1 THEN Frac(e, n * (n - 1)) ELSE @]
    /\ UNCHANGED <<topoResult, returned>>
    /\ UNCHANGED nonAnalyzeVars

\* Analyze returning before its second statement
analyzeReturnAfterMake ==
    /\ analyzePos = "degree"
    /\ analyzePos' = "returned"
    /\ returned' = [returned |-> TRUE, stats |-> localStats]
    /\ UNCHANGED <<localStats, topoResult>>
    /\ UNCHANGED nonAnalyzeVars

\* return stats: the caller receives the value
analyzeReturn ==
    /\ analyzePos = "return"
    /\ analyzePos' = "returned"
    /\ returned' = [returned |-> TRUE, stats |-> localStats]
    /\ UNCHANGED <<localStats, topoResult>>
    /\ UNCHANGED nonAnalyzeVars

NextAnalyze ==
    \/ queryIssues
    \/ queryIssuesDone
    \/ attachDependencies
    \/ NewAnalyzer
    \/ analyzeMake
    \/ analyzeDegree
    \/ analyzePageRank
    \/ analyzeBetweenness
    \/ analyzeEigenvector
    \/ analyzeHITS
    \/ analyzeCycles
    \/ analyzeTopologicalSort
    \/ analyzeCriticalPath
    \/ analyzeDensity
    \/ analyzeReturn

SpecAnalyze == Init /\ [][NextAnalyze]_vars


\* ======================================================================
\* package hooks: the pre-export hooks of an Executor
\* ======================================================================
MaxHooks == 3

\* the on_error values of a hook: "fail", "continue", and none
OnErrorValues == {"fail", "continue", ""}

\* e.config: nil, or a config whose k-th pre-export hook is named k
Configs ==
    {NilConfig} \cup
    UNION {{[nil |-> FALSE, PreExport |-> hooks] :
               hooks \in {h \in [1..n -> [Name : 1..MaxHooks, OnError : OnErrorValues]] :
                             \A k \in 1..n : h[k].Name = k}} : n \in 0..MaxHooks}

\* runHook: the command exits with status 0, fails, or is killed at the
\* deadline of its context
runHook(hook, phase) ==
    {[Hook |-> hook, Phase |-> phase, Success |-> TRUE, Error |-> "nil"],
     [Hook |-> hook, Phase |-> phase, Success |-> FALSE, Error |-> "exit"],
     [Hook |-> hook, Phase |-> phase, Success |-> FALSE, Error |-> "timeout"]}

\* a loop that gives up on every failed hook
failedAtAll(result, hook) == ~result.Success

\* the test that ends RunPreExport
failed(result, hook) == ~result.Success /\ hook.OnError = "fail"

NewExecutor ==
    /\ hookPc = "new"
    /\ hookPc' = "made"
    /\ hookConfig' \in Configs
    /\ hookResults' = <<>>
    /\ UNCHANGED <<hookIndex, hookErr>>
    /\ UNCHANGED nonHookVars

\* RunPreExport up to its loop
RunPreExport ==
    /\ hookPc = "made"
    /\ IF hookConfig.nil
       THEN /\ hookPc' = "returned"
            /\ hookErr' = NilError
            /\ UNCHANGED hookIndex
       ELSE /\ hookPc' = "loop"
            /\ hookIndex' = 1
            /\ UNCHANGED hookErr
    /\ UNCHANGED <<hookConfig, hookResults>>
    /\ UNCHANGED nonHookVars

\* one turn of the loop: the hook runs, its result is recorded, and a failed
\* hook with on_error "fail" ends RunPreExport with an error
runPreExportHook ==
    /\ hookPc = "loop"
    /\ hookIndex <= Len(hookConfig.PreExport)
    /\ LET hook == hookConfig.PreExport[hookIndex]
       IN  \E result \in runHook(hook, "pre-export") :
              /\ hookResults' = Append(hookResults, result)
              /\ IF failed(result, hook)
                 THEN /\ hookPc' = "returned"
                      /\ hookErr' = [nil |-> FALSE, Hook |-> hook.Name,
                                     Error |-> result.Error]
                      /\ UNCHANGED hookIndex
                 ELSE /\ hookIndex' = hookIndex + 1
                      /\ UNCHANGED <<hookPc, hookErr>>
    /\ UNCHANGED hookConfig
    /\ UNCHANGED nonHookVars

\* the loop is through: return nil
returnPreExport ==
    /\ hookPc = "loop"
    /\ hookIndex > Len(hookConfig.PreExport)
    /\ hookPc' = "returned"
    /\ hookErr' = NilError
    /\ UNCHANGED <<hookConfig, hookResults, hookIndex>>
    /\ UNCHANGED nonHookVars

NextHooks ==
    \/ NewExecutor
    \/ RunPreExport
    \/ runPreExportHook
    \/ returnPreExport

SpecHooks == Init /\ [][NextHooks]_vars


\* ======================================================================
\* package drift: configuration and staleness thresholds
\* ======================================================================
MaxLabels == 2

\* x < y on exact fractions
FracLT(x, y) == x[1] * y[2] < y[1] * x[2]

FracInt(n) == <<n, 1>>

\* the first part of Validate: omitted fields are set to the defaults
backfill(c) ==
    [c EXCEPT
        !.StaleWarningDays = IF @ = 0 THEN DefaultConfig.StaleWarningDays ELSE @,
        !.StaleCriticalDays = IF @ = 0 THEN DefaultConfig.StaleCriticalDays ELSE @,
        !.InProgressStaleMultiplier =
            IF @ = FracZero THEN DefaultConfig.InProgressStaleMultiplier ELSE @]

outside(x, lo, hi) == FracLT(x, FracInt(lo)) \/ FracLT(FracInt(hi), x)

\* the label loop of Validate: no label override is rejected
labelOverridesValid(c) ==
    \A label \in DOMAIN c.LabelOverrides :
        LET lc == c.LabelOverrides[label]
        IN  lc.nil \/
            /\ ~(lc.StaleWarningDays < 0 \/ lc.StaleCriticalDays < 0)
            /\ ~(/\ lc.StaleWarningDays > 0
                 /\ lc.StaleCriticalDays > 0
                 /\ lc.StaleCriticalDays < lc.StaleWarningDays)
            /\ ~outside(lc.InProgressStaleMultiplier, 0, 5)

\* the checks of Validate on the backfilled config: TRUE when it returns nil
checks(c) ==
    /\ ~outside(c.DensityWarningPct, 0, 1000)
    /\ ~(FracLT(c.DensityInfoPct, FracZero) \/ FracLT(c.DensityWarningPct, c.DensityInfoPct))
    /\ ~outside(c.NodeGrowthInfoPct, 0, 1000)
    /\ ~outside(c.EdgeGrowthInfoPct, 0, 1000)
    /\ ~(c.BlockedIncreaseThreshold < 0)
    /\ ~outside(c.ActionableDecreaseWarningPct, 0, 100)
    /\ ~outside(c.ActionableIncreaseInfoPct, 0, 1000)
    /\ ~outside(c.PageRankChangeWarningPct, 0, 1000)
    /\ ~(c.StaleWarningDays <= 0 \/ c.StaleCriticalDays <= 0)
    /\ ~(c.StaleCriticalDays < c.StaleWarningDays)
    /\ ~(~FracLT(FracZero, c.InProgressStaleMultiplier)
         \/ FracLT(FracInt(5), c.InProgressStaleMultiplier))
    /\ ~(c.BlockingCascadeInfo < 0 \/ c.BlockingCascadeWarning < 0)
    /\ ~(c.BlockingCascadeWarning < c.BlockingCascadeInfo)
    /\ labelOverridesValid(c)

RECURSIVE thresholdsLoop(_, _, _, _)
\* the loop of GetStalenessThresholds over labels[i..]
thresholdsLoop(c, labels, i, acc) ==
    IF i > Len(labels) THEN acc
    ELSE LET label == labels[i]
         IN  IF label \notin DOMAIN c.LabelOverrides \/ c.LabelOverrides[label].nil
             THEN thresholdsLoop(c, labels, i + 1, acc)
             ELSE LET lc == c.LabelOverrides[label]
                  IN  thresholdsLoop(c, labels, i + 1,
                         [warnDays |->
                             IF lc.StaleWarningDays > 0 /\ lc.StaleWarningDays < acc.warnDays
                             THEN lc.StaleWarningDays ELSE acc.warnDays,
                          critDays |->
                             IF lc.StaleCriticalDays > 0 /\ lc.StaleCriticalDays < acc.critDays
                             THEN lc.StaleCriticalDays ELSE acc.critDays,
                          inProgressMult |->
                             IF /\ FracLT(FracZero, lc.InProgressStaleMultiplier)
                                /\ FracLT(lc.InProgressStaleMultiplier, acc.inProgressMult)
                             THEN lc.InProgressStaleMultiplier ELSE acc.inProgressMult])

GetStalenessThresholds(c, labels) ==
    LET start == [warnDays |-> c.StaleWarningDays, critDays |-> c.StaleCriticalDays,
                  inProgressMult |-> c.InProgressStaleMultiplier]
    IN  IF Cardinality(DOMAIN c.LabelOverrides) = 0 THEN start
        ELSE thresholdsLoop(c, labels, 1, start)

\* the label overrides of a drift.yaml: label "a" absent or with any of the
\* days, label "b" absent, empty (nil) or with a warning threshold
LabelConfigsA ==
    [nil : {FALSE}, StaleWarningDays : {0, 7, 20}, StaleCriticalDays : {0, 10, 25},
     InProgressStaleMultiplier : {<<0, 1>>, <<1, 4>>}]

LabelConfigsB ==
    {NilLabelConfig} \cup [nil : {FALSE}, StaleWarningDays : {0, 7}, StaleCriticalDays : {-1, 0, 10},
                  InProgressStaleMultiplier : {<<0, 1>>}]

LabelOverrideMaps ==
    {<<>>}
    \cup {[l \in {"a"} |-> lc] : lc \in LabelConfigsA}
    \cup {[l \in {"b"} |-> lc] : lc \in LabelConfigsB}
    \cup {[l \in {"a", "b"} |-> IF l = "a" THEN lca ELSE lcb] :
             lca \in LabelConfigsA, lcb \in LabelConfigsB}

\* a config with one of the other fields out of its range
OutOfRange ==
    {[DefaultConfig EXCEPT !.DensityWarningPct = <<1001, 1>>],
     [DefaultConfig EXCEPT !.DensityInfoPct = <<60, 1>>],
     [DefaultConfig EXCEPT !.NodeGrowthInfoPct = <<-1, 1>>],
     [DefaultConfig EXCEPT !.EdgeGrowthInfoPct = <<1001, 1>>],
     [DefaultConfig EXCEPT !.BlockedIncreaseThreshold = -1],
     [DefaultConfig EXCEPT !.ActionableDecreaseWarningPct = <<101, 1>>],
     [DefaultConfig EXCEPT !.ActionableIncreaseInfoPct = <<-1, 1>>],
     [DefaultConfig EXCEPT !.PageRankChangeWarningPct = <<1001, 1>>],
     [DefaultConfig EXCEPT !.BlockingCascadeInfo = -1],
     [DefaultConfig EXCEPT !.BlockingCascadeWarning = 2]}

\* what yaml.Unmarshal may leave in the config Validate is called on
LoadedConfigs ==
    OutOfRange \cup
    {[DefaultConfig EXCEPT !.StaleWarningDays = w, !.StaleCriticalDays = cr,
                           !.InProgressStaleMultiplier = m, !.LabelOverrides = lo] :
        w \in {0, 14, 40}, cr \in {-1, 0, 30}, m \in {<<0, 1>>, <<1, 1>>, <<6, 1>>},
        lo \in LabelOverrideMaps}

\* the labels of an issue
LabelLists == UNION {[1..n -> {"a", "b", "c"}] : n \in 0..MaxLabels}

\* LoadConfig: the file is read into the defaults and validated
LoadConfig ==
    /\ driftPc = "load"
    /\ \E c \in LoadedConfigs :
          /\ driftConfig' = backfill(c)
          /\ driftPc' = IF checks(backfill(c)) THEN "valid" ELSE "invalid"
    /\ UNCHANGED <<driftLabels, driftThresholds>>
    /\ UNCHANGED nonDriftVars

\* GetStalenessThresholds on a config LoadConfig returned
callGetStalenessThresholds ==
    /\ driftPc = "valid"
    /\ driftPc' = "asked"
    /\ \E labels \in LabelLists :
          /\ driftLabels' = labels
          /\ driftThresholds' = GetStalenessThresholds(driftConfig, labels)
    /\ UNCHANGED driftConfig
    /\ UNCHANGED nonDriftVars

NextDrift ==
    \/ LoadConfig
    \/ callGetStalenessThresholds

SpecDrift == Init /\ [][NextDrift]_vars


\* ======================================================================
\* Properties
\* ======================================================================
Built == pc = "ready"

Analyzed == pc = "ready" /\ last = "Analyze"

Planned == pc = "ready" /\ last = "GetExecutionPlan"

\* the issue a node was built from
IssueOf(n) == issueMap[nodeToID[n]]

HasDep(id, target, type) ==
    \E dep \in Range(issueMap[id].Dependencies) :
        dep.DependsOnID = target /\ dep.Type = type

AllDepsBlocking ==
    \A n \in DOMAIN issues : \A dep \in Range(issues[n].Dependencies) : dep.Type = DepBlocks

NoTombstones == \A n \in DOMAIN issues : issues[n].Status # StatusTombstone

RECURSIVE TransitiveClosure(_)
TransitiveClosure(R) ==
    LET R2 == R \cup {<<x[1][1], x[2][2]>> : x \in {y \in R \X R : y[1][2] = y[2][1]}}
    IN IF R2 = R THEN R ELSE TransitiveClosure(R2)

\* some node reaches itself along one or more edges
HasCycle(gr) == \E e \in TransitiveClosure(gr.edges) : e[1] = e[2]

\* C1: the built graph has an edge u -> v only if issue u has a dependency
\* of the blocking type on v; a non-blocking dependency produces no edge.
C1_EdgesOnlyFromBlockingDeps ==
    Built => \A e \in g.edges : HasDep(nodeToID[e[1]], nodeToID[e[2]], DepBlocks)

\* C2: the nodes of the built graph are exactly the non-tombstone input
\* issues, and no edge starts or ends at a tombstone issue.
C2_NodesAreNonTombstoneIssues ==
    Built =>
        /\ {nodeToID[n] : n \in g.nodes} =
               {issues[n].ID : n \in {m \in DOMAIN issues : issues[m].Status # StatusTombstone}}
        /\ \A e \in g.edges : /\ IssueOf(e[1]).Status # StatusTombstone
                               /\ IssueOf(e[2]).Status # StatusTombstone

\* C3 as claimed: for every issue i of a built graph, in_degree(i) >= 0,
\* out_degree(i) >= 0 and in_degree(i) + out_degree(i) <= V - 1.  (Stated for
\* inputs whose dependencies are all blocking and that hold no tombstone, so
\* that only the edges every reading of the graph has are counted.)
C3_DegreeSumAtMostVMinus1 ==
    (Analyzed /\ AllDepsBlocking /\ NoTombstones) =>
        \A id \in DOMAIN stats.InDegree :
            /\ stats.InDegree[id] >= 0
            /\ stats.OutDegree[id] >= 0
            /\ stats.InDegree[id] + stats.OutDegree[id] <= Cardinality(g.nodes) - 1

\* two issues that depend on each other
MutualDependency == \E e \in g.edges : <<e[2], e[1]>> \in g.edges

\* C3 amended: both degrees are defined for every issue of the graph and lie
\* in 0 .. V - 1, so their sum is at most 2 (V - 1); the sum is at most V - 1
\* when no two issues depend on each other.
C3_DegreeBounds ==
    Analyzed =>
        /\ DOMAIN stats.InDegree = Range(nodeToID)
        /\ DOMAIN stats.OutDegree = Range(nodeToID)
        /\ \A id \in DOMAIN stats.InDegree :
            LET V == Cardinality(g.nodes)
            IN /\ stats.InDegree[id] \in 0..(V - 1)
               /\ stats.OutDegree[id] \in 0..(V - 1)
               /\ stats.InDegree[id] + stats.OutDegree[id] <= 2 * (V - 1)
               /\ ~MutualDependency => stats.InDegree[id] + stats.OutDegree[id] <= V - 1

\* degrees were computed for two issues that depend on each other, and the
\* sum of one issue's degrees exceeds V - 1
C3_Witness ==
    /\ Analyzed
    /\ MutualDependency
    /\ \E id \in DOMAIN stats.InDegree :
          stats.InDegree[id] + stats.OutDegree[id] > Cardinality(g.nodes) - 1

\* ------------------------------------------------------- execution plan
Closed(id) == issueMap[id].Status = StatusClosed

\* a non-closed issue with no blocking dependency on an existing non-closed issue
IsActionable(x) ==
    /\ ~Closed(x)
    /\ ~\E z \in DOMAIN issueMap : HasDep(x, z, DepBlocks) /\ ~Closed(z)

ActionableIDs == {x \in DOMAIN issueMap : IsActionable(x)}

\* the non-closed issues that depend on x and on no other existing non-closed issue
UnblocksSet(x) ==
    {y \in DOMAIN issueMap :
        /\ ~Closed(y)
        /\ HasDep(y, x, DepBlocks)
        /\ ~\E z \in DOMAIN issueMap \ {x} : HasDep(y, z, DepBlocks) /\ ~Closed(z)}

\* the (track, position) pairs of the plan
PlanSlots == {<<t, k>> \in (DOMAIN plan.Tracks) \X (1..MaxIssues + 1) :
                 k \in DOMAIN plan.Tracks[t].Items}

ItemAt(slot) == plan.Tracks[slot[1]].Items[slot[2]]

SlotsOf(x) == {slot \in PlanSlots : ItemAt(slot).ID = x}

StrictlyAscending(seq) == \A i, j \in DOMAIN seq : i < j => seq[i] < seq[j]

\* C4: for every actionable issue x (every item of the plan) the plan reports
\* as unblocks(x) exactly the non-closed issues that have a blocking
\* dependency on x and no other blocking dependency on an existing
\* non-closed issue, in ascending identifier order.
C4_UnblocksExact ==
    Planned =>
        \A slot \in PlanSlots :
            /\ Range(ItemAt(slot).UnblocksIDs) = UnblocksSet(ItemAt(slot).ID)
            /\ StrictlyAscending(ItemAt(slot).UnblocksIDs)

\* closing x unblocks an issue y whose other blocker exists and is closed
C4_Witness ==
    /\ Planned
    /\ \E slot \in PlanSlots : \E y \in Range(ItemAt(slot).UnblocksIDs) :
          \E z \in DOMAIN issueMap \ {ItemAt(slot).ID} :
              HasDep(y, z, DepBlocks) /\ Closed(z)

\* the undirected projection of the blocking graph over the current issues
BlockingLinks ==
    {<<x, y>> \in (DOMAIN issueMap) \X (DOMAIN issueMap) :
        HasDep(x, y, DepBlocks) \/ HasDep(y, x, DepBlocks)}

Connected(x, y) == x = y \/ <<x, y>> \in TransitiveClosure(BlockingLinks)

ComponentOf(x) == {y \in DOMAIN issueMap : Connected(x, y)}

\* C5: the plan has exactly one track per connected component with an
\* actionable member and no other track; every actionable issue is in exactly
\* one track, and two actionable issues share a track iff they share a
\* component.
C5_TracksAreComponents ==
    Planned =>
        /\ \A x \in ActionableIDs : Cardinality(SlotsOf(x)) = 1
        /\ \A slot \in PlanSlots : ItemAt(slot).ID \in ActionableIDs
        /\ \A t \in DOMAIN plan.Tracks : Len(plan.Tracks[t].Items) >= 1
        /\ \A x, y \in ActionableIDs :
              ({s[1] : s \in SlotsOf(x)} = {s[1] : s \in SlotsOf(y)}) <=> Connected(x, y)
        /\ Len(plan.Tracks) = Cardinality({ComponentOf(x) : x \in ActionableIDs})

\* two actionable issues share a track only through an issue that is not
\* actionable
C5_Witness ==
    /\ Planned
    /\ \E x, y \in ActionableIDs :
          /\ x # y
          /\ <<x, y>> \notin BlockingLinks
          /\ \E t \in DOMAIN plan.Tracks : \E i, j \in DOMAIN plan.Tracks[t].Items :
                plan.Tracks[t].Items[i].ID = x /\ plan.Tracks[t].Items[j].ID = y

\* C6: two computations of the execution plan on the same issue list give
\* the same output, whatever order the hash maps are walked in.
C6_PlanDeterministic ==
    [][(Planned /\ pc' = "ready" /\ last' = "GetExecutionPlan") => plan' = plan]_vars

MaxUnblocks == Max({Cardinality(UnblocksSet(x)) : x \in ActionableIDs})

\* C7: when some issue is actionable, summary.highest_impact is the
\* actionable issue of smallest identifier among those whose unblocks set is
\* largest, and summary.unblocks_count is the size of that set.
C7_HighestImpact ==
    (Planned /\ ActionableIDs # {}) =>
        /\ plan.Summary.HighestImpact \in ActionableIDs
        /\ Cardinality(UnblocksSet(plan.Summary.HighestImpact)) = MaxUnblocks
        /\ \A x \in ActionableIDs :
              Cardinality(UnblocksSet(x)) = MaxUnblocks => plan.Summary.HighestImpact <= x
        /\ plan.Summary.UnblocksCount = MaxUnblocks

\* the highest-impact issue unblocks something and is not the actionable
\* issue of smallest identifier
C7_Witness ==
    /\ Planned
    /\ ActionableIDs # {}
    /\ plan.Summary.UnblocksCount >= 1
    /\ plan.Summary.HighestImpact # Min(ActionableIDs)

\* ---------------------------------------------------- DAG-only metrics
\* the nodes that depend on n
Dependents(n) == {p \in g.nodes : <<p, n>> \in g.edges}

Depth(n) == stats.CriticalPathScore[nodeToID[n]]

C9_DagMetricsSkippedOnCycle ==
    Analyzed =>
        /\ DOMAIN stats.InDegree = Range(nodeToID)
        /\ HasCycle(g) => /\ stats.CriticalPathScore = <<>>
                           /\ stats.TopologicalOrder = <<>>
        /\ ~HasCycle(g) => /\ DOMAIN stats.CriticalPathScore = Range(nodeToID)
                            /\ Range(stats.TopologicalOrder) = Range(nodeToID)

\* a graph with a cycle was analysed
C9_Witness ==
    /\ Analyzed
    /\ HasCycle(g)
    /\ \E id \in DOMAIN stats.InDegree : stats.InDegree[id] >= 1

PositionsOf(id) == {i \in DOMAIN stats.TopologicalOrder : stats.TopologicalOrder[i] = id}

\* C10: on an acyclic graph the topological order lists every node exactly
\* once, and for every edge u -> v the dependency v comes before u.
C10_DependenciesFirst ==
    (Analyzed /\ ~HasCycle(g)) =>
        /\ Len(stats.TopologicalOrder) = Cardinality(g.nodes)
        /\ \A n \in g.nodes : Cardinality(PositionsOf(nodeToID[n])) = 1
        /\ \A e \in g.edges :
              \A i \in PositionsOf(nodeToID[e[1]]), j \in PositionsOf(nodeToID[e[2]]) : j < i

\* an acyclic graph with two edges was ordered
C10_Witness ==
    /\ Analyzed
    /\ ~HasCycle(g)
    /\ Cardinality(g.edges) >= 2
    /\ Len(stats.TopologicalOrder) = Cardinality(g.nodes)

\* ------------------------------------------------- invalid input (graph)
\* some issue of the list names itself as a dependency
HasSelfDependency ==
    \E n \in DOMAIN issues : \E dep \in Range(issues[n].Dependencies) :
        dep.DependsOnID = issues[n].ID

Constructed == pc \in {"ready", "panic"}

\* C11: an input issue that lists itself as a dependency does not abort
\* graph construction: NewAnalyzer returns, the built graph has no edge
\* u -> u, and every node and every other edge of the input is built.
C11_SelfLoopRejected ==
    (Constructed /\ HasSelfDependency) =>
        /\ pc = "ready"
        /\ \A e \in g.edges : e[1] # e[2]
        /\ g.nodes = DOMAIN issues
        /\ g.edges = {e \in EdgeCalls(issues) : e[1] # e[2]}

HasDuplicateID == \E m, n \in DOMAIN issues : m # n /\ issues[m].ID = issues[n].ID

\* C12: when the input list holds an identifier twice, construction does
\* not abort, the number of graph nodes equals the number of distinct
\* identifiers, and idToNode and nodeToID are mutually inverse bijections.
C12_DuplicateDropped ==
    (Constructed /\ HasDuplicateID /\ ~HasSelfDependency) =>
        /\ pc = "ready"
        /\ Cardinality(g.nodes) = Cardinality(IDsOf(issues))
        /\ DOMAIN nodeToID = g.nodes
        /\ \A id \in DOMAIN idToNode : nodeToID[idToNode[id]] = id
        /\ \A n \in DOMAIN nodeToID : idToNode[nodeToID[n]] = n

\* --------------------------------------------------- path normalization
Normalized == normalized # NotNormalized

IsSeparator(c) == c \in {"/", "\\"}

\* C17: the normalized path has no back-slash, no run of two separators, no
\* leading ./ and no trailing /, so that paths differing only in these
\* respects get the same index key.
C17_NormalForm ==
    Normalized =>
        /\ \A i \in DOMAIN normalized : normalized[i] # "\\"
        /\ \A i \in DOMAIN normalized :
              i + 1 \in DOMAIN normalized =>
                  ~(IsSeparator(normalized[i]) /\ IsSeparator(normalized[i + 1]))
        /\ TrimPrefixDotSlash(normalized) = normalized
        /\ TrimSuffixSlash(normalized) = normalized

\* ------------------------------------------- file index and co-change
Ready == fpc = "ready"

Called(op) == fpc = "ready" /\ call.op = op

\* the normalized paths of the files commit c lists
TouchedBy(c) == {normalizePath(c.Files[j]) : j \in DOMAIN c.Files}

\* file_commit_counts[F]: the number of distinct commits that touched F
DistinctCommits(f) == Cardinality({c \in CommitsOf(report) : f \in TouchedBy(c)})

\* C13: for all distinct files A and B, matrix[A][B] is at most
\* min(file_commit_counts[A], file_commit_counts[B]), the counts being the
\* numbers of distinct commits that touched A and B, also when a commit
\* lists the same normalized path more than once.
C13_CoChangeBounded ==
    Ready =>
        \A ab \in DOMAIN fl.coChange.Matrix :
            ab[1] # ab[2] =>
                /\ fl.coChange.Matrix[ab] <= DistinctCommits(ab[1])
                /\ fl.coChange.Matrix[ab] <= DistinctCommits(ab[2])

\* the raw paths that occur in a commit of bead b
RawPathsOf(b) == UNION {Range(c.Files) : c \in Range(report[b].Commits)}

\* the beads of a lookup result
Returned == {lookupResult.OpenBeads[i].BeadID : i \in DOMAIN lookupResult.OpenBeads}
            \cup {lookupResult.ClosedBeads[i].BeadID : i \in DOMAIN lookupResult.ClosedBeads}

Tombstone(b) == report[b].Status = "tombstone"

\* C14 as claimed: for every file path f that occurs in a commit of some
\* issue's history, looking up f returns (in its open or closed list) every
\* issue that has a correlated commit including f.
C14_LookupReturnsAllTouching ==
    Called("LookupByFile") =>
        \A b \in DOMAIN report : call.arg \in RawPathsOf(b) => b \in Returned

\* C14 amended: looking up such a path f returns every issue that has a
\* correlated commit including f and whose live status is not tombstone.
C14_LookupReturnsAllLiveTouching ==
    Called("LookupByFile") =>
        \A b \in DOMAIN report :
            (call.arg \in RawPathsOf(b) /\ ~Tombstone(b)) => b \in Returned

\* a path spelled ./d/a in the commits was looked up, a closed issue that
\* touched it was returned and a tombstone issue that touched it was not
C14_Witness ==
    /\ Called("LookupByFile")
    /\ call.arg = P_dot_da
    /\ \E b \in DOMAIN report :
          call.arg \in RawPathsOf(b) /\ report[b].Status = "closed" /\ b \in Returned
    /\ \E b \in DOMAIN report :
          call.arg \in RawPathsOf(b) /\ Tombstone(b) /\ b \notin Returned

\* the beads with a commit on the normalized path f, tombstones left out
LiveBeadsOn(f) ==
    {b \in DOMAIN report :
        ~Tombstone(b) /\ \E c \in Range(report[b].Commits) : f \in TouchedBy(c)}

\* C15: an issue whose live status is tombstone never appears in, and is
\* never counted by, a file-index output: the lists and the total of the
\* exact-path, directory and glob lookups, the total/open/closed counts of
\* the hotspots, and the affected list of impact analysis.
C15_TombstonesExcluded ==
    /\ (Called("LookupByFile") \/ Called("LookupByFileGlob")) =>
          /\ \A b \in Returned : ~Tombstone(b)
          /\ lookupResult.TotalBeads = Cardinality(Returned)
    /\ Called("GetHotspots") =>
          \A i \in DOMAIN hotspots :
              /\ hotspots[i].TotalBeads = Cardinality(LiveBeadsOn(hotspots[i].FilePath))
              /\ hotspots[i].OpenBeads =
                     Cardinality({b \in LiveBeadsOn(hotspots[i].FilePath) :
                                     report[b].Status # "closed"})
              /\ hotspots[i].ClosedBeads =
                     Cardinality({b \in LiveBeadsOn(hotspots[i].FilePath) :
                                     report[b].Status = "closed"})
    /\ Called("ImpactAnalysis") =>
          \A i \in DOMAIN impact.AffectedBeads : ~Tombstone(impact.AffectedBeads[i].BeadID)

\* later touch first, identifier ascending among equal touch times
OrderedByTouch(refs) ==
    \A i, j \in DOMAIN refs :
        i < j => \/ refs[i].LastTouch > refs[j].LastTouch
                 \/ /\ refs[i].LastTouch = refs[j].LastTouch
                    /\ refs[i].BeadID < refs[j].BeadID

\* the members of a list with their touch times, in the list's order
TouchList(refs) == [i \in DOMAIN refs |-> <<refs[i].BeadID, refs[i].LastTouch>>]

\* C16: the open list and the closed list of an exact-path, directory or
\* glob lookup are ordered by most-recent touch descending, identifier
\* ascending among ties, and a repeated run of the same lookup on the same
\* index and statuses returns the same lists (members, touch times, order).
C16_LookupOrderedAndStable ==
    [][(fpc' = "ready" /\ call'.op \in {"LookupByFile", "LookupByFileGlob"}) =>
          /\ OrderedByTouch(lookupResult'.OpenBeads)
          /\ OrderedByTouch(lookupResult'.ClosedBeads)
          /\ (call = call' /\ fl = fl') =>
                 /\ TouchList(lookupResult'.OpenBeads) = TouchList(lookupResult.OpenBeads)
                 /\ TouchList(lookupResult'.ClosedBeads) = TouchList(lookupResult.ClosedBeads)]_vars

\* ------------------------------------------------------ impact analysis
Affected == {impact.AffectedBeads[i].BeadID : i \in DOMAIN impact.AffectedBeads}

\* bead b has a commit on the input file (or under the input directory) nf
Touches(b, nf) ==
    \E c \in Range(report[b].Commits) : \E f \in TouchedBy(c) :
        f = nf \/ HasPrefix(f, nf \o <<"/">>)

\* the time of bead b's latest commit on one of the input files
MostRecentTouch(b, files) ==
    Max({c.Timestamp : c \in {x \in Range(report[b].Commits) :
            \E f \in TouchedBy(x) : \E nf \in files : f = nf \/ HasPrefix(f, nf \o <<"/">>)}})

TouchesInput(b) == \E nf \in Range(impact.Files) : Touches(b, nf)

StatusRank(status) ==
    IF status = "in_progress" THEN 0 ELSE IF status = "open" THEN 1 ELSE 2

\* C19: the affected list is ordered by status rank ascending (in-progress
\* 0, open 1, closed 2) and by relevance descending among entries of equal
\* rank; no entry whose status is not in-progress precedes an in-progress
\* entry.
C19_AffectedOrder ==
    Called("ImpactAnalysis") =>
        \A i, j \in DOMAIN impact.AffectedBeads :
            i < j =>
                LET a == impact.AffectedBeads[i]
                    b == impact.AffectedBeads[j]
                IN /\ (a.Status # "in_progress") => (b.Status # "in_progress")
                   /\ ({a.Status, b.Status} \subseteq {"in_progress", "open", "closed"}) =>
                         \/ StatusRank(a.Status) < StatusRank(b.Status)
                         \/ /\ StatusRank(a.Status) = StatusRank(b.Status)
                            /\ a.Relevance >= b.Relevance

AffectedWith(status) ==
    Cardinality({i \in DOMAIN impact.AffectedBeads : impact.AffectedBeads[i].Status = status})

\* C20: the risk score (in hundredths) equals min(100, 40 I + 20 O + 5 C + B)
\* where I, O and C count the affected issues that are in progress, open and
\* recently closed and B is 10 when more than 3 distinct input files were
\* given, 0 otherwise; it lies within 0 .. 100.
C20_RiskScore ==
    (Called("ImpactAnalysis") /\ impact.Files # <<>>) =>
        LET raw == 40 * AffectedWith("in_progress") + 20 * AffectedWith("open")
                   + 5 * AffectedWith("closed")
                   + (IF Len(impact.Files) > 3 THEN 10 ELSE 0)
        IN /\ impact.RiskScore = (IF raw > 100 THEN 100 ELSE raw)
           /\ impact.RiskScore \in 0..100

\* ---------------------------------------------------------- related work
\* FindRelatedWork returned a result for a target that has a history
RelatedCalled == rpc = "called" /\ relatedCall.targetID \in DOMAIN hr.Histories

\* the beads listed in one category of the result
Listed(results) == {results[i].BeadID : i \in DOMAIN results}

\* the dependency edges, read in either direction
DependencyLinks ==
    DepPairs(dependencyGraph.deps) \cup {<<p[2], p[1]>> : p \in DepPairs(dependencyGraph.deps)}

Distance1(b) == b # relatedCall.targetID /\ <<relatedCall.targetID, b>> \in DependencyLinks

Distance2(b) ==
    /\ b # relatedCall.targetID
    /\ ~Distance1(b)
    /\ \E x \in RelatedIDs :
          <<relatedCall.targetID, x>> \in DependencyLinks /\ <<x, b>> \in DependencyLinks

\* the issues the claim puts in the dependency cluster
ExpectedCluster ==
    {b \in DOMAIN hr.Histories :
        /\ ~shouldSkipRelatedStatus(hr.Histories[b].Status, relatedCall.IncludeClosed)
        /\ b \notin Listed(related.FileOverlap) \cup Listed(related.CommitOverlap)
        /\ Distance1(b) \/ Distance2(b)}

\* C21: when a dependency graph is supplied, the dependency cluster holds
\* every issue (not the target, not filtered by status, not reported in an
\* earlier category) at distance 1 or 2 from the target along dependency
\* edges in either direction, with relevance 80 at distance 1 and 40 at
\* distance 2, up to the max-results cap.
C21_DependencyCluster ==
    (RelatedCalled /\ dependencyGraph.supplied) =>
        /\ \A i \in DOMAIN related.DependencyCluster :
              LET rb == related.DependencyCluster[i]
              IN /\ rb.BeadID \in ExpectedCluster
                 /\ rb.Relevance = (IF Distance1(rb.BeadID) THEN 80 ELSE 40)
        /\ IF relatedCall.MaxResults = 0
              \/ Cardinality(ExpectedCluster) <= relatedCall.MaxResults
           THEN Listed(related.DependencyCluster) = ExpectedCluster
           ELSE Len(related.DependencyCluster) = relatedCall.MaxResults

\* the (category, position) pairs of the result
RelatedSlots ==
    {<<"file_overlap", i>> : i \in DOMAIN related.FileOverlap}
    \cup {<<"commit_overlap", i>> : i \in DOMAIN related.CommitOverlap}
    \cup {<<"dependency_cluster", i>> : i \in DOMAIN related.DependencyCluster}
    \cup {<<"concurrent", i>> : i \in DOMAIN related.Concurrent}

RelatedAt(slot) ==
    IF slot[1] = "file_overlap" THEN related.FileOverlap[slot[2]]
    ELSE IF slot[1] = "commit_overlap" THEN related.CommitOverlap[slot[2]]
    ELSE IF slot[1] = "dependency_cluster" THEN related.DependencyCluster[slot[2]]
    ELSE related.Concurrent[slot[2]]

\* C22: in every related-work result the target is in no category, every
\* other issue is in at most one of the four categories (and once in it),
\* and total_related is the number of distinct related issues returned.
C22_CategoriesDisjoint ==
    RelatedCalled =>
        /\ \A slot \in RelatedSlots :
              /\ RelatedAt(slot).BeadID # relatedCall.targetID
              /\ RelatedAt(slot).RelationType = slot[1]
        /\ \A s1, s2 \in RelatedSlots :
              RelatedAt(s1).BeadID = RelatedAt(s2).BeadID => s1 = s2
        /\ related.TotalRelated = Cardinality({RelatedAt(slot).BeadID : slot \in RelatedSlots})

\* an issue that shares a file with the target, is a direct dependency of it
\* and was active in the same window is reported under file overlap only,
\* beside an issue of the dependency cluster
C22_Witness ==
    /\ RelatedCalled
    /\ related.DependencyCluster # <<>>
    /\ \E b \in Listed(related.FileOverlap) :
          /\ Distance1(b)
          /\ hr.Histories[b].Commits # <<>>
          /\ b \notin Listed(related.DependencyCluster) \cup Listed(related.Concurrent)

\* ------------------------------------------------ approximate betweenness
ApproxCalled == apc = "called"

\* the score a result gives a node: a node without entry scores zero
ScoreOf(scores, n) == IF n \in DOMAIN scores THEN scores[n] ELSE FracZero

RECURSIVE Walks(_, _, _, _)
\* the number of walks of L edges from s to t
Walks(gr, s, t, L) ==
    IF L = 0 THEN (IF s = t THEN 1 ELSE 0)
    ELSE SumOver([x \in From(gr, s) |-> Walks(gr, x, t, L - 1)], From(gr, s))

\* the length of a shortest path from s to t, -1 when there is none
ShortestLength(gr, s, t) ==
    LET lengths == {L \in 0..Cardinality(gr.nodes) : Walks(gr, s, t, L) > 0}
    IN IF lengths = {} THEN -1 ELSE Min(lengths)

\* the number of shortest paths from s to t
ShortestPaths(gr, s, t) == Walks(gr, s, t, ShortestLength(gr, s, t))

\* the number of shortest paths from s to t that pass through v
ShortestPathsThrough(gr, s, t, v) ==
    IF /\ ShortestLength(gr, s, v) >= 0
       /\ ShortestLength(gr, v, t) >= 0
       /\ ShortestLength(gr, s, v) + ShortestLength(gr, v, t) = ShortestLength(gr, s, t)
    THEN ShortestPaths(gr, s, v) * ShortestPaths(gr, v, t)
    ELSE 0

RECURSIVE FracSumOver(_, _)
FracSumOver(F, S) ==
    IF S = {} THEN FracZero
    ELSE LET x == CHOOSE y \in S : TRUE IN FracAdd(F[x], FracSumOver(F, S \ {x}))

\* betweenness by its definition: over the ordered pairs (s, t) of other
\* nodes with a path from s to t, the share of shortest paths through v
ExactBetweenness(gr, v) ==
    LET pairs == {st \in (gr.nodes \ {v}) \X (gr.nodes \ {v}) :
                     st[1] # st[2] /\ ShortestLength(gr, st[1], st[2]) > 0}
    IN FracSumOver([st \in pairs |->
                       Frac(ShortestPathsThrough(gr, st[1], st[2], v),
                            ShortestPaths(gr, st[1], st[2]))], pairs)

\* C24: when the sample size k is at least the number of nodes V, the
\* returned score of every node is its exact betweenness, and so is the sum
\* of the single-source contributions over all V nodes as pivots (scaled by
\* V / k = 1).
C24_FullSampleIsExact ==
    (ApproxCalled /\ approxCall.sampleSize >= Cardinality(g.nodes)) =>
        /\ \A n \in g.nodes : ScoreOf(betweenness.Scores, n) = ExactBetweenness(g, n)
        /\ \A bc \in pivotLoop(g, SortAsc(g.nodes), 1, {<<>>}) :
              \A n \in g.nodes : ScoreOf(bc, n) = ExactBetweenness(g, n)

\* a full-sample run on a graph where two shortest paths share the load
C24_Witness ==
    /\ ApproxCalled
    /\ approxCall.sampleSize >= Cardinality(g.nodes)
    /\ betweenness.Mode = "exact"
    /\ \E n \in DOMAIN betweenness.Scores : betweenness.Scores[n][2] > 1

\* ----------------------------------------------------------- track labels
RECURSIVE Pow26(_)
Pow26(L) == IF L = 0 THEN 1 ELSE 26 * Pow26(L - 1)

RECURSIVE LabelsUpTo(_)
\* the number of labels of at most L letters
LabelsUpTo(L) == IF L = 0 THEN 0 ELSE Pow26(L) + LabelsUpTo(L - 1)

\* the k-th string of A, B, ..., Z, AA, AB, ...: the strings over A..Z by
\* length, then alphabetically
BaseLabel(k) ==
    LET L == Min({x \in 1..4 : k <= LabelsUpTo(x)})
        index == k - 1 - LabelsUpTo(L - 1)
    IN [p \in 1..L |-> Alphabet[((index \div Pow26(L - p)) % 26) + 1]]

\* what follows "track-" in a track identifier
LabelOf(id) == Tail(id)

\* the issues make two pairs, each joined by one dependency, with no
\* dependency between the pairs
TwoDisconnectedPairs ==
    /\ Cardinality(DOMAIN issueMap) = 4
    /\ \A x \in DOMAIN issueMap : Cardinality(ComponentOf(x)) = 2
    /\ ~HasCycle(g)

\* C25: the k-th track of an execution plan is labelled with the k-th
\* string of A, B, ..., Z, AA, AB, ... and the labels of a plan are
\* pairwise distinct (generateTrackID gives the k-th string for every k, and
\* distinct strings for distinct k); for two disconnected pairs of issues
\* the plan has two tracks, labelled A and B.
C25_TrackLabels ==
    /\ Planned =>
          /\ \A k \in DOMAIN plan.Tracks :
                /\ Head(plan.Tracks[k].TrackID) = "track-"
                /\ LabelOf(plan.Tracks[k].TrackID) = BaseLabel(k)
          /\ \A j, k \in DOMAIN plan.Tracks :
                j # k => LabelOf(plan.Tracks[j].TrackID) # LabelOf(plan.Tracks[k].TrackID)
          /\ TwoDisconnectedPairs =>
                [k \in DOMAIN plan.Tracks |-> LabelOf(plan.Tracks[k].TrackID)]
                    = << <<"A">>, <<"B">> >>
    /\ trackID # NoTrackID =>
          /\ Head(trackID) = "track-"
          /\ LabelOf(trackID) = BaseLabel(labelNum)
          /\ \A m \in 1..MaxTrackNum :
                m # labelNum => LabelOf(generateTrackID(m)) # LabelOf(trackID)

\* a plan for two disconnected pairs, with its two tracks
C25_Witness ==
    /\ Planned
    /\ TwoDisconnectedPairs
    /\ Len(plan.Tracks) = 2

\* ------------------------------------------------------------------ C26
\* the most urgent of the current priority and the priorities the score
\* reaches: P0 from 0.25, P1 from 0.18, P2 from 0.12
ExpectedPriority(score, currentPriority) ==
    Min({currentPriority}
        \cup (IF FracGE(score, <<1, 4>>) THEN {0} ELSE {})
        \cup (IF FracGE(score, <<9, 50>>) THEN {1} ELSE {})
        \cup (IF FracGE(score, <<3, 25>>) THEN {2} ELSE {}))

IsPriorityProposal(p) == p.ChangeType = ChangePriority

\* the recommendations of the call that ask for an upgrade of an open issue
IsUpgrade(rec) ==
    /\ inIssueMap(triageCall.issues, rec.ID)
    /\ LET issue == issueMapAt(triageCall.issues, rec.ID)
       IN  /\ issue.Status # StatusClosed
           /\ ExpectedPriority(rec.Score, issue.Priority) < issue.Priority

\* C26: for every score and every current priority in 0..4 the suggested
\* priority is never numerically greater than the current one; it is P0
\* from 0.25, P1 from 0.18, P2 from 0.12 when that is more urgent than the
\* current priority and the current priority otherwise; the priority
\* proposals of a call are exactly its upgrades, in the order of the
\* recommendations.
C26_OnlyUpgrades ==
    triageCall.called =>
        /\ \A score \in Scores, currentPriority \in TriagePriorities :
              /\ suggestPriority(score, currentPriority) <= currentPriority
              /\ suggestPriority(score, currentPriority)
                    = ExpectedPriority(score, currentPriority)
        /\ LET made == SelectSeq(proposals, IsPriorityProposal)
               upgrades == SelectSeq(triageCall.triage.Recommendations, IsUpgrade)
           IN  /\ Len(made) = Len(upgrades)
               /\ \A k \in DOMAIN made :
                     LET issue == issueMapAt(triageCall.issues, upgrades[k].ID)
                     IN  /\ made[k].IssueID = upgrades[k].ID
                         /\ made[k].OldValue = <<"P", issue.Priority>>
                         /\ made[k].NewValue
                               = <<"P", ExpectedPriority(upgrades[k].Score, issue.Priority)>>
                         /\ made[k].NewValue[2] < made[k].OldValue[2]

\* a score of 0.18 moved an open P3 issue to P1
C26_Witness ==
    /\ triageCall.called
    /\ \E k \in DOMAIN proposals :
          /\ proposals[k].ChangeType = ChangePriority
          /\ proposals[k].Score = <<9, 50>>
          /\ proposals[k].OldValue = <<"P", 3>>
          /\ proposals[k].NewValue = <<"P", 1>>

\* ------------------------------------------------------------------ C27
\* the nodes that lie on a cycle
OnCycle(gr) == {n \in gr.nodes : \E w \in simplePathsFrom(gr, <<n>>) :
                   Len(w) > 1 /\ <<w[Len(w)], n>> \in gr.edges}

\* Phase 1 of the analysis is complete in st: degree, topological order,
\* density and cycles of the graph
Phase1Complete(st) ==
    /\ DOMAIN st.InDegree = nodeIDs(g)
    /\ DOMAIN st.OutDegree = nodeIDs(g)
    /\ \A id \in nodeIDs(g) :
          /\ st.InDegree[id] = Cardinality({e \in g.edges : nodeToID[e[2]] = id})
          /\ st.OutDegree[id] = Cardinality({e \in g.edges : nodeToID[e[1]] = id})
    /\ IF OnCycle(g) = {}
       THEN /\ Range(st.TopologicalOrder) = nodeIDs(g)
            /\ Len(st.TopologicalOrder) = Cardinality(g.nodes)
            /\ st.Cycles = {}
       ELSE /\ st.TopologicalOrder = <<>>
            /\ UNION {Range(c) : c \in st.Cycles} = {nodeToID[n] : n \in OnCycle(g)}
    /\ Cardinality(g.nodes) > 1 =>
          st.Density[1] * Cardinality(g.nodes) * (Cardinality(g.nodes) - 1)
             = Cardinality(g.edges) * st.Density[2]

\* Phase 2 is complete in st: PageRank, betweenness, HITS, eigenvector and
\* critical-path depth
Phase2Complete(st) ==
    /\ DOMAIN st.PageRank = nodeIDs(g)
    /\ DOMAIN st.Eigenvector = nodeIDs(g)
    /\ DOMAIN st.Hubs = nodeIDs(g)
    /\ DOMAIN st.Authorities = nodeIDs(g)
    /\ st.Betweenness \in {byID(g, bw) : bw \in networkBetweenness(g, SortAsc(g.nodes))}
    /\ OnCycle(g) = {} => DOMAIN st.CriticalPathScore = nodeIDs(g)

FailedHard(k) == ~hookResults[k].Success /\ hookResults[k].Hook.OnError = "fail"

\* C28: RunPreExport runs the pre-export hooks in configured order and stops
\* at the first hook that fails with on_error "fail": it returns an error
\* for that hook, no later hook runs, and the results are the hooks run up
\* to and including it; a failed hook with another on_error value neither
\* stops the sequence nor makes RunPreExport return an error.
C28_StopsAtFirstHardFailure ==
    /\ Len(hookResults) <= Len(hookConfig.PreExport)
    /\ \A k \in DOMAIN hookResults :
          /\ hookResults[k].Hook = hookConfig.PreExport[k]
          /\ FailedHard(k) => k = Len(hookResults) /\ hookPc = "returned"
    /\ hookPc = "returned" =>
          IF \E k \in DOMAIN hookResults : FailedHard(k)
          THEN /\ ~hookErr.nil
               /\ hookErr.Hook = hookResults[Len(hookResults)].Hook.Name
               /\ hookErr.Error = hookResults[Len(hookResults)].Error
          ELSE /\ hookErr.nil
               /\ Len(hookResults) = Len(hookConfig.PreExport)

\* the first hook failed with on_error "continue", the second with "fail":
\* RunPreExport returned the error of the second and the third never ran
C28_Witness ==
    /\ hookPc = "returned"
    /\ Len(hookConfig.PreExport) = 3
    /\ Len(hookResults) = 2
    /\ ~hookResults[1].Success /\ hookResults[1].Hook.OnError = "continue"
    /\ ~hookResults[2].Success /\ hookResults[2].Hook.OnError = "fail"
    /\ hookErr.Hook = 2

\* ------------------------------------------------------------------ C29
\* C29: for every configuration Validate accepts and every list of labels,
\* GetStalenessThresholds returns 0 < warnDays <= critDays, whatever
\* overrides match the labels.
C29_ThresholdsOrdered ==
    driftPc = "asked" =>
        /\ 0 < driftThresholds.warnDays
        /\ driftThresholds.warnDays <= driftThresholds.critDays

\* ------------------------------------------------------------------ C30
\* C30: path normalization is idempotent: normalizing a normalized path
\* (an index key used as the query) gives the same path again.
C30_NormalizeIdempotent ==
    Normalized => normalizePath(normalized) = normalized

====
